---- MODULE Spec2Model ----
(***************************************************************************)
(* State-machine model of the SEASIDE point-of-sale backend               *)
(* (app.py, db_operations.py, database_setup.py): the per-session cart    *)
(* kept in the Flask session, the POS finalize workflow, POST /api/sales,  *)
(* and the Sales / SaleItems tables with their constraints.               *)
(*                                                                         *)
(* Money is held in mills (1/1000 of the currency unit), so that          *)
(* round(x, 2) is a real rounding: 20.00 is 20000, 0.125 is 125.          *)
(***************************************************************************)
EXTENDS Integers, Sequences, FiniteSets, TLC

\* ---------------------------------------------------------------- bounds
MaxLines == 2      \* lines a cart may hold
MaxQty == 2        \* quantity a cart line may reach
MaxSales == 2      \* Sale rows ever created (AUTOINCREMENT ids 1..MaxSales)
MaxApiItems == 2   \* length of the items list of a POST /api/sales body
MaxProducts == 3   \* Product rows ever created (AUTOINCREMENT ids 1..MaxProducts)
MaxCustomers == 25 \* Customer rows of the customer listing
MaxPage == 4       \* page number a listing request may ask for
MaxRedirects == 2  \* redirects a client follows for one listing request
MaxItemRows == 3    \* SaleItem rows the store holds when a repository call is entered
MaxClockDay == 426 \* last day the clock reaches, counted from 1 January of EpochYear

\* ITEMS_PER_PAGE
ITEMS_PER_PAGE == 10

\* ---------------------------------------------------------------- values
\* math.isclose default rel_tol = 1e-09, as the divisor 10^9
RelTolInv == 1000000000

NoneVal == "None"

PosWorkers == {"pos"}
ApiWorkers == {"api"}
AdminWorkers == {"admin"}
\* browser tabs whose requests overlap: two of one browser, one of another
TabWorkers == {"tab1", "tab2", "till2"}
Workers == PosWorkers \cup ApiWorkers \cup AdminWorkers \cup TabWorkers
SessionIds == {"s1", "s2"}

\* ---------------------------------------------------------------- helpers
RECURSIVE SumSeq(_)
SumSeq(s) == IF s = <<>> THEN 0 ELSE Head(s) + SumSeq(Tail(s))

MinOf(S) == CHOOSE x \in S : \A y \in S : x <= y

Abs(x) == IF x < 0 THEN -x ELSE x

MaxOf2(a, b) == IF a >= b THEN a ELSE b

\* the elements of s at the indexes for which keep holds, in order
RECURSIVE Filter(_, _)
Filter(s, keep) ==
    IF s = <<>> THEN <<>>
    ELSE IF keep[1]
         THEN <<Head(s)>> \o Filter(Tail(s), [i \in 1..(Len(s) - 1) |-> keep[i + 1]])
         ELSE Filter(Tail(s), [i \in 1..(Len(s) - 1) |-> keep[i + 1]])

\* list.pop(i)
PopAtFront(s, i) == Tail(s)
PopAt(s, i) == [j \in 1..(Len(s) - 1) |-> IF j < i THEN s[j] ELSE s[j + 1]]

\* round(x, 2) of a value in mills: to the nearest cent, an exact tie to
\* the even cent (the values of the model ending in 5 mills are multiples
\* of 0.125, exact in binary floating point, so the tie is a real tie)
Round2(m) ==
    LET c == m \div 10
        r == m % 10
    IN  IF r < 5 THEN c * 10
        ELSE IF r > 5 THEN (c + 1) * 10
        ELSE IF c % 2 = 0 THEN c * 10 ELSE (c + 1) * 10

\* math.isclose(a, b): abs(a-b) <= max(rel_tol * max(abs(a), abs(b)), 0.0)
IsClose(a, b) == Abs(a - b) <= (MaxOf2(Abs(a), Abs(b)) \div RelTolInv)

\* int(s) on the form strings of the model
ParseInt(s) ==
    CASE s = "-1" -> [ok |-> TRUE, v |-> -1]
      [] s = "0" -> [ok |-> TRUE, v |-> 0]
      [] s = "1" -> [ok |-> TRUE, v |-> 1]
      [] s = "2" -> [ok |-> TRUE, v |-> 2]
      [] OTHER -> [ok |-> FALSE, v |-> 0]

\* float(s) on the form strings of the model, in mills
ParseFloat(s) ==
    CASE s = "-1" -> [ok |-> TRUE, v |-> -1000]
      [] s = "-0.004" -> [ok |-> TRUE, v |-> -4]
      [] s = "0" -> [ok |-> TRUE, v |-> 0]
      [] s = "0.125" -> [ok |-> TRUE, v |-> 125]
      [] s = "20" -> [ok |-> TRUE, v |-> 20000]
      [] s = "20.004" -> [ok |-> TRUE, v |-> 20004]
      [] s = "1050000" -> [ok |-> TRUE, v |-> 1050000000]
      [] s = "1050000.001" -> [ok |-> TRUE, v |-> 1050000001]
      [] OTHER -> [ok |-> FALSE, v |-> 0]

\* str.strip() on the form strings of the model
Strip(s) ==
    CASE s = "  " -> ""
      [] s = " Refill " -> "Refill"
      [] s = " Ana " -> "Ana"
      [] OTHER -> s

\* COLLATE NOCASE folding on the names of the model
Lower(s) ==
    CASE s = "Refill" -> "refill"
      [] s = "Ana" -> "ana"
      [] s = "N/A" -> "n/a"
      [] s = "Custom Item" -> "custom item"
      [] OTHER -> s

\* ---------------------------------------------------------------- dates
\* a datetime.date is <<year, month, day>>; the calendar of the model
\* starts on 1 January of EpochYear, a Sunday
EpochYear == 2023

IsLeap(year) == year % 4 = 0 /\ (year % 100 # 0 \/ year % 400 = 0)

\* calendar.monthrange(year, month)[1]
DaysInMonth(year, month) ==
    IF month = 2 THEN (IF IsLeap(year) THEN 29 ELSE 28)
    ELSE IF month \in {4, 6, 9, 11} THEN 30 ELSE 31

DaysInYear(year) == IF IsLeap(year) THEN 366 ELSE 365

RECURSIVE DaysBeforeYear(_)
DaysBeforeYear(year) ==
    IF year <= EpochYear THEN 0 ELSE DaysBeforeYear(year - 1) + DaysInYear(year - 1)

RECURSIVE DaysBeforeMonth(_, _)
DaysBeforeMonth(year, month) ==
    IF month <= 1 THEN 0
    ELSE DaysBeforeMonth(year, month - 1) + DaysInMonth(year, month - 1)

\* date.toordinal(), counted from 1 January of EpochYear as day 1
ToOrdinal(date) == DaysBeforeYear(date[1]) + DaysBeforeMonth(date[1], date[2]) + date[3]

RECURSIVE OrdinalInYear(_, _)
OrdinalInYear(year, n) ==
    IF n > DaysInYear(year) THEN OrdinalInYear(year + 1, n - DaysInYear(year))
    ELSE <<year, n>>

RECURSIVE OrdinalInMonth(_, _, _)
OrdinalInMonth(year, month, n) ==
    IF n > DaysInMonth(year, month) THEN OrdinalInMonth(year, month + 1, n - DaysInMonth(year, month))
    ELSE <<year, month, n>>

\* date.fromordinal(n)
FromOrdinal(n) ==
    LET yn == OrdinalInYear(EpochYear, n) IN OrdinalInMonth(yn[1], 1, yn[2])

\* date + datetime.timedelta(days=n)
PlusDays(date, n) == FromOrdinal(ToOrdinal(date) + n)

\* date.weekday(): Monday is 0, Sunday is 6
Weekday(date) == (ToOrdinal(date) + 5) % 7

\* date.strftime('%Y-%m-%d'): the digits of the string, whose order as
\* numbers is the order of the strings
StrfDate(date) == date[1] * 10000 + date[2] * 100 + date[3]

\* datetime.now().strftime('%Y-%m-%d %H:%M:%S'): the date part and the
\* time part of the string
StrfDateTime(clock) == [day |-> StrfDate(clock.date), time |-> clock.time]

\* DATE(SaleTimestamp): the date part of the stored string
SqlDate(timestamp) == timestamp.day

\* ---------------------------------------------------------------- the cart
\* the default of session.get('current_sale', ...): the Empty cart
EmptySale == [items |-> <<>>, customer_name |-> "N/A", total |-> 0]

Line(name, price, quantity) ==
    [name |-> name, price |-> price, quantity |-> quantity,
     subtotal |-> Round2(quantity * price)]

Subtotals(items) == [i \in DOMAIN items |-> items[i].subtotal]

\* round(sum(item['subtotal'] for item in current_sale['items']), 2)
FoldTotalStale(cs) == cs
FoldTotal(cs) == [cs EXCEPT !.total = Round2(SumSeq(Subtotals(cs.items)))]

\* the loop of add_item / add_custom_item: the first line with the same
\* name and the same price grows, otherwise a new line is appended
MergeLineByName(cs, name, price, quantity) ==
    LET hits == {i \in DOMAIN cs.items : cs.items[i].name = name}
    IN  IF hits # {}
        THEN LET i == MinOf(hits)
                 q == cs.items[i].quantity + quantity
             IN  FoldTotal([cs EXCEPT !.items[i] =
                     [@ EXCEPT !.quantity = q, !.subtotal = Round2(q * cs.items[i].price)]])
        ELSE FoldTotal([cs EXCEPT !.items = Append(@, Line(name, price, quantity))])
MergeLine(cs, name, price, quantity) ==
    LET hits == {i \in DOMAIN cs.items :
                    cs.items[i].name = name /\ cs.items[i].price = price}
    IN  IF hits # {}
        THEN LET i == MinOf(hits)
                 q == cs.items[i].quantity + quantity
             IN  FoldTotal([cs EXCEPT !.items[i] =
                     [@ EXCEPT !.quantity = q, !.subtotal = Round2(q * cs.items[i].price)]])
        ELSE FoldTotal([cs EXCEPT !.items = Append(@, Line(name, price, quantity))])

\* action == 'add_item'; product is the answer of get_product_by_name_db
PosAddItem(cs, product_name, quantity_str, product) ==
    LET q == ParseInt(quantity_str)
    IN  IF ~q.ok THEN [cs |-> cs, out |-> "invalid_quantity"]
        ELSE IF q.v <= 0 THEN [cs |-> cs, out |-> "quantity_not_positive"]
        ELSE IF product.found
             THEN [cs |-> MergeLine(cs, product_name, product.Price, q.v),
                   out |-> "added"]
             ELSE [cs |-> cs, out |-> "product_not_found"]

CustomNameToUse(selected, manual) ==
    IF selected = "Custom Item/Service"
    THEN IF manual # NoneVal /\ manual # "" /\ Strip(manual) # ""
         THEN Strip(manual) ELSE "Custom Item"
    ELSE selected

\* round(float(custom_price_str if custom_price_str else 0), 2)
CustomPrice(price_str) ==
    IF price_str = NoneVal \/ price_str = "" THEN [ok |-> TRUE, v |-> 0]
    ELSE LET f == ParseFloat(price_str)
         IN  [ok |-> f.ok, v |-> Round2(f.v)]

\* int(custom_quantity_str if custom_quantity_str else 1)
CustomQuantity(quantity_str) ==
    IF quantity_str = NoneVal \/ quantity_str = "" THEN [ok |-> TRUE, v |-> 1]
    ELSE ParseInt(quantity_str)

\* action == 'add_custom_item'
PosAddCustomItem(cs, selected, manual, price_str, quantity_str) ==
    LET name == CustomNameToUse(selected, manual)
        p == CustomPrice(price_str)
        q == CustomQuantity(quantity_str)
    IN  IF ~p.ok \/ ~q.ok THEN [cs |-> cs, out |-> "invalid_custom"]
        ELSE IF p.v < 0 THEN [cs |-> cs, out |-> "price_negative"]
        ELSE IF q.v <= 0 THEN [cs |-> cs, out |-> "quantity_not_positive"]
        ELSE [cs |-> MergeLine(cs, name, p.v, q.v), out |-> "added"]

\* action == 'set_customer'
PosSetCustomerRaw(cs, form_name) ==
    [cs |-> [cs EXCEPT !.customer_name = IF form_name = NoneVal THEN "N/A" ELSE Strip(form_name)],
     out |-> "customer_set"]
PosSetCustomer(cs, form_name) ==
    LET n == Strip(IF form_name = NoneVal THEN "N/A" ELSE form_name)
    IN  [cs |-> [cs EXCEPT !.customer_name = IF n = "" THEN "N/A" ELSE n],
         out |-> "customer_set"]

\* action == 'remove_item'
PosRemoveItem(cs, item_name, item_price_str) ==
    LET f == ParseFloat(item_price_str)
        keep == [i \in DOMAIN cs.items |->
                    ~(cs.items[i].name = item_name /\ IsClose(cs.items[i].price, f.v))]
        left == Filter(cs.items, keep)
    IN  IF ~f.ok THEN [cs |-> cs, out |-> "invalid_data"]
        ELSE IF Len(left) < Len(cs.items)
             THEN [cs |-> FoldTotal([cs EXCEPT !.items = left]), out |-> "removed"]
             ELSE [cs |-> [cs EXCEPT !.items = left], out |-> "no_match"]

\* action == 'increase_qty' or 'decrease_qty'
PosAdjustQtyClamped(cs, action, item_name, item_price_str) ==
    LET f == ParseFloat(item_price_str)
        hits == {i \in DOMAIN cs.items :
                    cs.items[i].name = item_name /\ IsClose(cs.items[i].price, f.v)}
    IN  IF ~f.ok THEN [cs |-> cs, out |-> "invalid_data"]
        ELSE IF hits = {} THEN [cs |-> cs, out |-> "no_match"]
        ELSE LET i == MinOf(hits)
                 q == IF action = "increase_qty"
                      THEN cs.items[i].quantity + 1 ELSE cs.items[i].quantity - 1
             IN  IF q < 0
                 THEN [cs |-> FoldTotal([cs EXCEPT !.items = PopAt(@, i)]),
                       out |-> "line_removed"]
                 ELSE [cs |-> FoldTotal([cs EXCEPT !.items[i] =
                           [@ EXCEPT !.quantity = q, !.subtotal = Round2(q * cs.items[i].price)]]),
                       out |-> "adjusted"]

PosAdjustQtyStale(cs, action, item_name, item_price_str) ==
    LET f == ParseFloat(item_price_str)
        hits == {i \in DOMAIN cs.items :
                    cs.items[i].name = item_name /\ IsClose(cs.items[i].price, f.v)}
    IN  IF ~f.ok THEN [cs |-> cs, out |-> "invalid_data"]
        ELSE IF hits = {} THEN [cs |-> cs, out |-> "no_match"]
        ELSE LET i == MinOf(hits)
                 q == IF action = "increase_qty"
                      THEN cs.items[i].quantity + 1 ELSE cs.items[i].quantity - 1
             IN  IF q <= 0
                 THEN [cs |-> FoldTotal([cs EXCEPT !.items = PopAt(@, i)]),
                       out |-> "line_removed"]
                 ELSE [cs |-> FoldTotal([cs EXCEPT !.items[i] =
                           [@ EXCEPT !.quantity = q]]),
                       out |-> "adjusted"]

PosAdjustQty(cs, action, item_name, item_price_str) ==
    LET f == ParseFloat(item_price_str)
        hits == {i \in DOMAIN cs.items :
                    cs.items[i].name = item_name /\ IsClose(cs.items[i].price, f.v)}
    IN  IF ~f.ok THEN [cs |-> cs, out |-> "invalid_data"]
        ELSE IF hits = {} THEN [cs |-> cs, out |-> "no_match"]
        ELSE LET i == MinOf(hits)
                 q == IF action = "increase_qty"
                      THEN cs.items[i].quantity + 1 ELSE cs.items[i].quantity - 1
             IN  IF q <= 0
                 THEN [cs |-> FoldTotal([cs EXCEPT !.items = PopAt(@, i)]),
                       out |-> "line_removed"]
                 ELSE [cs |-> FoldTotal([cs EXCEPT !.items[i] =
                           [@ EXCEPT !.quantity = q, !.subtotal = Round2(q * cs.items[i].price)]]),
                       out |-> "adjusted"]

\* ---------------------------------------------------------------- the store
\* get_product_by_name_db: WHERE ProductName = ? COLLATE NOCASE, fetchone()
GetProductByName(products, product_name) ==
    LET rows == {p \in products : Lower(p.ProductName) = Lower(product_name)}
    IN  IF rows = {} THEN [found |-> FALSE, ProductName |-> NoneVal, Price |-> 0]
        ELSE LET p == CHOOSE r \in rows : \A o \in rows : r.ProductID <= o.ProductID
             IN  [found |-> TRUE, ProductName |-> p.ProductName, Price |-> p.Price]

\* the value create_sale_db binds: customer_name if customer_name else 'N/A'
SaleCustomerName(customer_name) ==
    IF customer_name = NoneVal \/ customer_name = "" THEN "N/A" ELSE customer_name

\* Sales.CustomerName REFERENCES Customers (CustomerName), a NOCASE column
SaleCustomerExists(customers, customer_name) ==
    \E c \in customers : Lower(c.CustomerName) = Lower(SaleCustomerName(customer_name))

\* SaleItems: SaleID REFERENCES Sales, ProductName REFERENCES Products
\* (ProductName), ProductName NOT NULL, CHECK (Quantity > 0)
SaleItemAcceptedAnySale(sales, products, sale_id, product_name, quantity) ==
    /\ product_name # NoneVal
    /\ \E p \in products : p.ProductName = product_name
    /\ quantity > 0
SaleItemAccepted(sales, products, sale_id, product_name, quantity) ==
    /\ \E s \in sales : s.SaleID = sale_id
    /\ product_name # NoneVal
    /\ \E p \in products : p.ProductName = product_name
    /\ quantity > 0

\* the row add_sale_item_db inserts: subtotal = round(quantity * price_at_sale, 2)
SaleItemRowUnrounded(sale_id, product_name, quantity, price_at_sale) ==
    [SaleID |-> sale_id, ProductName |-> product_name, Quantity |-> quantity,
     PriceAtSale |-> price_at_sale, Subtotal |-> quantity * price_at_sale]
SaleItemRow(sale_id, product_name, quantity, price_at_sale) ==
    [SaleID |-> sale_id, ProductName |-> product_name, Quantity |-> quantity,
     PriceAtSale |-> price_at_sale, Subtotal |-> Round2(quantity * price_at_sale)]

\* the SaleItems rows of one sale, ORDER BY SaleItemID
ItemsOf(saleItems, sale_id) ==
    Filter(saleItems, [i \in DOMAIN saleItems |-> saleItems[i].SaleID = sale_id])

\* SELECT SUM(Subtotal) FROM SaleItems WHERE SaleID = ?  (None read as 0.0)
RowSubtotals(rows) == [i \in DOMAIN rows |-> rows[i].Subtotal]
SumSubtotal(saleItems, sale_id) == SumSeq(RowSubtotals(ItemsOf(saleItems, sale_id)))

\* UPDATE Sales SET TotalAmount = ? WHERE SaleID = ?
SetTotal(sales, sale_id, total) ==
    {IF s.SaleID = sale_id THEN [s EXCEPT !.TotalAmount = total] ELSE s : s \in sales}

\* DELETE FROM SaleItems WHERE SaleID = ?
DeleteItemsOf(saleItems, sale_id) ==
    Filter(saleItems, [i \in DOMAIN saleItems |-> saleItems[i].SaleID # sale_id])

\* ---------------------------------------------------------------- state
VARIABLES
    Products,    \* rows of Products: [ProductID, ProductName, Price]
    nextProductID, \* the AUTOINCREMENT counter of Products
    Customers,   \* rows of Customers: [CustomerID, CustomerName]
    Sales,       \* rows of Sales: [SaleID, SaleTimestamp, CustomerName, TotalAmount]
    SaleItems,   \* rows of SaleItems in SaleItemID order
    nextSaleID,  \* the AUTOINCREMENT counter of Sales
    session,     \* per browser session: logged_in and the 'current_sale' key
    req,         \* per client: the request in progress, then its response
    now          \* the clock datetime.now() reads: [date, time as the digits hhmmss]

vars == <<Products, nextProductID, Customers, Sales, SaleItems, nextSaleID, session, req, now>>

NoSession == [logged_in |-> FALSE, has_sale |-> FALSE, current_sale |-> EmptySale]

NoInput == [name |-> NoneVal, manual |-> NoneVal, price |-> NoneVal, quantity |-> NoneVal]

Idle ==
    [pc |-> "idle", action |-> NoneVal, in |-> NoInput, out |-> NoneVal,
     cs |-> EmptySale, sale_id |-> 0, i |-> 0, n |-> 0,
     all_items_added |-> TRUE, invalid |-> 0, status |-> 0, total |-> 0,
     id |-> 0, conn |-> NoneVal,
     page_num |-> 0, customers |-> <<>>, total_pages |-> 0, redirects |-> 0,
     range |-> <<>>, chart |-> NoneVal,
     sent |-> NoSession, cookie |-> NoSession,
     handle |-> NoneVal, opened |-> 0, closed |-> 0, raised |-> FALSE]

SessionOf(w) == IF w = "till2" THEN "s2" ELSE "s1"

\* session.get('current_sale', {"items": [], "customer_name": "N/A", "total": 0.0})
CurrentSale(sess) == IF sess.has_sale THEN sess.current_sale ELSE EmptySale

\* session['current_sale'] = current_sale
WithSaleCleared(sess, cs) == [sess EXCEPT !.has_sale = TRUE, !.current_sale = EmptySale]
WithSale(sess, cs) == [sess EXCEPT !.has_sale = TRUE, !.current_sale = cs]

\* session.pop('current_sale', None)
WithoutSaleKept(sess) == sess
WithoutSaleLines(sess) == [sess EXCEPT !.current_sale.items = <<>>, !.current_sale.total = 0]
WithoutSale(sess) == [sess EXCEPT !.has_sale = FALSE, !.current_sale = EmptySale]

WithinBounds(cs) ==
    /\ Len(cs.items) <= MaxLines
    /\ \A i \in DOMAIN cs.items : cs.items[i].quantity <= MaxQty

\* a response is delivered before any client takes its next step
NoResponsePending == \A w \in Workers : req[w].pc # "done"

\* the tables after database_setup.py and the set-up of the catalogue: one
\* product (priced below a cent, 0.125) and one customer
Catalogue == {[ProductID |-> 1, ProductName |-> "Refill", Price |-> 125]}

Clientele == {[CustomerID |-> 1, CustomerName |-> "Ana"]}

\* the times of day of the model: 00:00:00 and 23:59:59
DayTimes == <<0, 235959>>

Clock(date, time) == [date |-> date, time |-> time]

\* the clock when the application starts
StartClock == Clock(<<2024, 2, 28>>, DayTimes[1])

\* the application after start-up: nobody logged in, no sale recorded
Init ==
    /\ Products = Catalogue
    /\ nextProductID = 2
    /\ Customers = Clientele
    /\ Sales = {}
    /\ SaleItems = <<>>
    /\ nextSaleID = 1
    /\ session = [s \in SessionIds |-> NoSession]
    /\ req = [w \in Workers |-> Idle]
    /\ now = StartClock

\* ---------------------------------------------------------------- inputs
ProductNameInputs == {"Refill", "refill", "Nope"}
QuantityInputs == {"-1", "0", "1", "2", "x"}
CustomSelectInputs == {"Refill", "Custom Item/Service"}
ManualNameInputs == {"  ", " Refill "}
CustomPriceInputs == {"abc", "-1", "-0.004", "20.004"}
CustomQuantityInputs == {"", "0", "2", "x"}
CustomerInputs == {NoneVal, "", "  ", " Ana "}
ItemNameInputs == {"Refill", "refill", "Custom Item", "Gold"}
ItemPriceInputs == {"0", "20", "0.125", "20.004", "1050000", "abc"}
ApiCustomerInputs == {NoneVal, "Ana"}
ApiBodyInputs ==
    {"not_json", "items_missing", "items_not_list", "items_empty", "items"}
ApiItemInputs ==
    {[dict |-> FALSE, name |-> NoneVal, quantity |-> NoneVal, price |-> NoneVal]}
    \cup [dict : {TRUE}, name : {NoneVal, "Refill", "Wash"},
          quantity : {NoneVal, "x", "0", "1"}, price : {NoneVal, "abc", "-1", "20", "0.125"}]

\* ---------------------------------------------------------------- login
\* POST /login with the right password
Login(s) ==
    /\ NoResponsePending
    /\ \A w \in PosWorkers : SessionOf(w) = s => req[w].pc = "idle"
    /\ ~session[s].logged_in
    /\ session' = [session EXCEPT ![s].logged_in = TRUE]
    /\ UNCHANGED <<Products, nextProductID, Customers, Sales, SaleItems, nextSaleID, req, now>>

\* GET /logout
Logout(s) ==
    /\ NoResponsePending
    /\ \A w \in PosWorkers : SessionOf(w) = s => req[w].pc = "idle"
    /\ session[s].logged_in
    /\ session' = [session EXCEPT ![s] = WithoutSale([@ EXCEPT !.logged_in = FALSE])]
    /\ UNCHANGED <<Products, nextProductID, Customers, Sales, SaleItems, nextSaleID, req, now>>

\* ---------------------------------------------------------------- POS cart
PosReady(w) ==
    /\ w \in PosWorkers
    /\ NoResponsePending
    /\ req[w].pc = "idle"
    /\ session[SessionOf(w)].logged_in

Input(name, manual, price, quantity) ==
    [name |-> name, manual |-> manual, price |-> price, quantity |-> quantity]

\* the end of a cart action: session['current_sale'] = current_sale, redirect
PosRespond(w, action, in, r) ==
    /\ WithinBounds(r.cs)
    /\ session' = [session EXCEPT ![SessionOf(w)] = WithSale(@, r.cs)]
    /\ req' = [req EXCEPT ![w] =
                  [Idle EXCEPT !.pc = "done", !.action = action, !.in = in, !.out = r.out]]
    /\ UNCHANGED <<Products, nextProductID, Customers, Sales, SaleItems, nextSaleID, now>>

AddItem(w) ==
    /\ PosReady(w)
    /\ \E product_name \in ProductNameInputs, quantity_str \in QuantityInputs,
          db_ok \in BOOLEAN :
         LET product == GetProductByName(IF db_ok THEN Products ELSE {}, product_name)
         IN  PosRespond(w, "add_item", Input(product_name, NoneVal, NoneVal, quantity_str),
                 PosAddItem(CurrentSale(session[SessionOf(w)]), product_name,
                            quantity_str, product))

AddCustomItem(w) ==
    /\ PosReady(w)
    /\ \E selected \in CustomSelectInputs, manual \in ManualNameInputs,
          price_str \in CustomPriceInputs, quantity_str \in CustomQuantityInputs :
         PosRespond(w, "add_custom_item", Input(selected, manual, price_str, quantity_str),
             PosAddCustomItem(CurrentSale(session[SessionOf(w)]), selected, manual,
                              price_str, quantity_str))

SetCustomer(w) ==
    /\ PosReady(w)
    /\ \E form_name \in CustomerInputs :
         PosRespond(w, "set_customer", Input(form_name, NoneVal, NoneVal, NoneVal),
             PosSetCustomer(CurrentSale(session[SessionOf(w)]), form_name))

RemoveItem(w) ==
    /\ PosReady(w)
    /\ \E item_name \in ItemNameInputs, item_price_str \in ItemPriceInputs :
         PosRespond(w, "remove_item", Input(item_name, NoneVal, item_price_str, NoneVal),
             PosRemoveItem(CurrentSale(session[SessionOf(w)]), item_name, item_price_str))

AdjustQty(w) ==
    /\ PosReady(w)
    /\ \E action \in {"increase_qty", "decrease_qty"},
          item_name \in ItemNameInputs, item_price_str \in ItemPriceInputs :
         PosRespond(w, action, Input(item_name, NoneVal, item_price_str, NoneVal),
             PosAdjustQty(CurrentSale(session[SessionOf(w)]), action, item_name,
                          item_price_str))

\* action == 'clear_sale': session.pop('current_sale', None), redirect
ClearSale(w) ==
    /\ PosReady(w)
    /\ session' = [session EXCEPT ![SessionOf(w)] = WithoutSale(@)]
    /\ req' = [req EXCEPT ![w] =
                  [Idle EXCEPT !.pc = "done", !.action = "clear_sale", !.out = "cleared",
                               !.cs = CurrentSale(session[SessionOf(w)])]]
    /\ UNCHANGED <<Products, nextProductID, Customers, Sales, SaleItems, nextSaleID, now>>

\* the client has its response
Return(w) ==
    /\ req[w].pc = "done"
    /\ req' = [req EXCEPT ![w] = Idle]
    /\ UNCHANGED <<Products, nextProductID, Customers, Sales, SaleItems, nextSaleID, session, now>>

\* ---------------------------------------------------------------- the clock
\* time passes: from 00:00:00 to 23:59:59, then to 00:00:00 of the next day
Tick ==
    /\ now.time = DayTimes[1] \/ ToOrdinal(now.date) < MaxClockDay
    /\ now' = IF now.time = DayTimes[1]
              THEN Clock(now.date, DayTimes[2])
              ELSE Clock(PlusDays(now.date, 1), DayTimes[1])
    /\ UNCHANGED <<Products, nextProductID, Customers, Sales, SaleItems, nextSaleID, session, req>>

\* ---------------------------------------------------------------- create_sale_db
\* INSERT INTO Sales (SaleTimestamp, CustomerName, TotalAmount) VALUES (?, ?, 0.0)
\* with now_timestamp = datetime.datetime.now().strftime('%Y-%m-%d %H:%M:%S')
NewSaleRow(sale_id, clock, customer_name) ==
    [SaleID |-> sale_id, SaleTimestamp |-> StrfDateTime(clock),
     CustomerName |-> SaleCustomerName(customer_name), TotalAmount |-> 0]

\* whether create_sale_db returns an id: the store answers and the row is accepted
CreateSaleSucceeds(db_ok, customer_name) ==
    db_ok /\ SaleCustomerExists(Customers, customer_name)

\* sale_id = cursor.lastrowid: the id AUTOINCREMENT gave the row just inserted
LastRowIdOfEarlier(next_id) == IF next_id > 1 THEN next_id - 1 ELSE next_id
LastRowId(next_id) == next_id

\* whether add_sale_item_db returns True
AddSaleItemSucceeds(db_ok, sale_id, product_name, quantity) ==
    db_ok /\ SaleItemAccepted(Sales, Products, sale_id, product_name, quantity)

\* ---------------------------------------------------------------- POS finalize
\* action == 'finalize_sale', up to create_sale_db
FinalizeBegin(w) ==
    /\ PosReady(w)
    /\ LET s == SessionOf(w)
           cs == CurrentSale(session[s])
       IN  IF cs.items = <<>>
           THEN /\ session' = [session EXCEPT ![s] = WithSale(@, cs)]
                /\ req' = [req EXCEPT ![w] =
                       [Idle EXCEPT !.pc = "done", !.action = "finalize_sale",
                                    !.out = "empty_sale", !.cs = cs]]
                /\ UNCHANGED <<Sales, nextSaleID>>
           ELSE \E db_ok \in BOOLEAN :
                  IF CreateSaleSucceeds(db_ok, cs.customer_name)
                  THEN /\ nextSaleID <= MaxSales
                       /\ Sales' = Sales \cup {NewSaleRow(nextSaleID, now, cs.customer_name)}
                       /\ nextSaleID' = nextSaleID + 1
                       /\ req' = [req EXCEPT ![w] =
                              [Idle EXCEPT !.pc = "add_items", !.action = "finalize_sale",
                                           !.cs = cs, !.sale_id = LastRowId(nextSaleID), !.i = 1]]
                       /\ UNCHANGED session
                  ELSE /\ session' = [session EXCEPT ![s] = WithSale(@, cs)]
                       /\ req' = [req EXCEPT ![w] =
                              [Idle EXCEPT !.pc = "done", !.action = "finalize_sale",
                                           !.out = "create_failed", !.cs = cs]]
                       /\ UNCHANGED <<Sales, nextSaleID>>
    /\ UNCHANGED <<Products, nextProductID, Customers, SaleItems, now>>

\* one turn of: for item in current_sale["items"]: db.add_sale_item_db(...)
\* and, after the last line with a failure recorded, the partial-failure exit
FinalizeAddItem(w) ==
    /\ w \in PosWorkers
    /\ NoResponsePending
    /\ req[w].pc = "add_items"
    /\ \E db_ok \in BOOLEAN :
         LET r == req[w]
             item == r.cs.items[r.i]
             added == AddSaleItemSucceeds(db_ok, r.sale_id, item.name, item.quantity)
             all == r.all_items_added /\ added
         IN  /\ SaleItems' = IF added
                             THEN Append(SaleItems, SaleItemRow(r.sale_id, item.name,
                                                               item.quantity, item.price))
                             ELSE SaleItems
             /\ IF r.i < Len(r.cs.items)
                THEN /\ req' = [req EXCEPT ![w].i = r.i + 1, ![w].all_items_added = all]
                     /\ UNCHANGED session
                ELSE IF all
                THEN /\ req' = [req EXCEPT ![w].pc = "update_total",
                                           ![w].all_items_added = all]
                     /\ UNCHANGED session
                ELSE /\ req' = [req EXCEPT ![w].pc = "done", ![w].out = "partial",
                                           ![w].all_items_added = all]
                     /\ session' = [session EXCEPT ![SessionOf(w)] = WithSale(@, r.cs)]
    /\ UNCHANGED <<Products, nextProductID, Customers, Sales, nextSaleID, now>>

\* if all_items_added: SELECT SUM(Subtotal), UPDATE Sales SET TotalAmount,
\* session.pop('current_sale'); except sqlite3.Error: the cart stays
FinalizeUpdateTotal(w) ==
    /\ w \in PosWorkers
    /\ NoResponsePending
    /\ req[w].pc = "update_total"
    /\ \E db_ok \in BOOLEAN :
         LET r == req[w]
             final_total == SumSubtotal(SaleItems, r.sale_id)
         IN  IF db_ok /\ final_total >= 0
             THEN /\ Sales' = SetTotal(Sales, r.sale_id, final_total)
                  /\ session' = [session EXCEPT ![SessionOf(w)] = WithoutSale(@)]
                  /\ req' = [req EXCEPT ![w].pc = "done", ![w].out = "success",
                                        ![w].total = final_total]
             ELSE /\ session' = [session EXCEPT ![SessionOf(w)] = WithSale(@, r.cs)]
                  /\ req' = [req EXCEPT ![w].pc = "done", ![w].out = "total_failed"]
                  /\ UNCHANGED Sales
    /\ UNCHANGED <<Products, nextProductID, Customers, SaleItems, nextSaleID, now>>

\* ---------------------------------------------------------------- POST /api/sales
\* require_api_key, the checks of the body, and create_sale_db
ApiBegin(w) ==
    /\ w \in ApiWorkers
    /\ NoResponsePending
    /\ req[w].pc = "idle"
    /\ \E key_ok \in BOOLEAN, body \in ApiBodyInputs, n \in 1..MaxApiItems,
          customer_name \in ApiCustomerInputs, db_ok \in BOOLEAN :
         LET in == Input(body, NoneVal, NoneVal, NoneVal)
             name == IF customer_name = NoneVal THEN "N/A" ELSE customer_name
         IN  IF ~key_ok
             THEN /\ req' = [req EXCEPT ![w] =
                        [Idle EXCEPT !.pc = "done", !.action = "api_sales",
                                     !.out = "unauthorized", !.status = 401]]
                  /\ UNCHANGED <<Sales, nextSaleID>>
             ELSE IF body # "items"
             THEN /\ req' = [req EXCEPT ![w] =
                        [Idle EXCEPT !.pc = "done", !.action = "api_sales", !.in = in,
                                     !.out = "bad_request", !.status = 400]]
                  /\ UNCHANGED <<Sales, nextSaleID>>
             ELSE IF CreateSaleSucceeds(db_ok, name)
             THEN /\ nextSaleID <= MaxSales
                  /\ Sales' = Sales \cup {NewSaleRow(nextSaleID, now, name)}
                  /\ nextSaleID' = nextSaleID + 1
                  /\ req' = [req EXCEPT ![w] =
                        [Idle EXCEPT !.pc = "api_items", !.action = "api_sales", !.in = in,
                                     !.sale_id = LastRowId(nextSaleID), !.i = 1, !.n = n]]
             ELSE /\ req' = [req EXCEPT ![w] =
                        [Idle EXCEPT !.pc = "done", !.action = "api_sales", !.in = in,
                                     !.out = "create_failed", !.status = 500]]
                  /\ UNCHANGED <<Sales, nextSaleID>>
    /\ UNCHANGED <<Products, nextProductID, Customers, SaleItems, session, now>>

\* the checks of one item_data before add_sale_item_db: "raise" when
\* item_data.get fails, "skip" on continue, "add" otherwise
ApiItemCheck(item) ==
    IF ~item.dict THEN "raise"
    ELSE IF item.name = NoneVal \/ item.name = ""
            \/ item.quantity = NoneVal \/ item.price = NoneVal THEN "skip"
    ELSE IF ~ParseInt(item.quantity).ok \/ ~ParseFloat(item.price).ok THEN "skip"
    ELSE IF ParseInt(item.quantity).v <= 0 \/ ParseFloat(item.price).v < 0 THEN "skip"
    ELSE "add"

\* one turn of: for item_data in items_to_sync
ApiItem(w) ==
    /\ w \in ApiWorkers
    /\ NoResponsePending
    /\ req[w].pc = "api_items"
    /\ \E item \in ApiItemInputs, db_ok \in BOOLEAN :
         LET r == req[w]
             check == ApiItemCheck(item)
             qty == ParseInt(item.quantity).v
             price == ParseFloat(item.price).v
             added == check = "add" /\ AddSaleItemSucceeds(db_ok, r.sale_id, item.name, qty)
             invalid == IF check = "skip" THEN r.invalid + 1 ELSE r.invalid
         IN  /\ SaleItems' = IF added
                             THEN Append(SaleItems, SaleItemRow(r.sale_id, item.name, qty, price))
                             ELSE SaleItems
             /\ IF check = "raise"
                THEN req' = [req EXCEPT ![w].pc = "done", ![w].out = "unexpected",
                                        ![w].status = 500, ![w].invalid = invalid]
                ELSE IF r.i < r.n
                THEN req' = [req EXCEPT ![w].i = r.i + 1, ![w].invalid = invalid]
                ELSE req' = [req EXCEPT ![w].pc = "api_total", ![w].invalid = invalid]
    /\ UNCHANGED <<Products, nextProductID, Customers, Sales, nextSaleID, session, now>>

\* SELECT SUM(Subtotal), UPDATE Sales SET TotalAmount; 201, or 500 on sqlite3.Error
ApiUpdateTotal(w) ==
    /\ w \in ApiWorkers
    /\ NoResponsePending
    /\ req[w].pc = "api_total"
    /\ \E db_ok \in BOOLEAN :
         LET r == req[w]
             db_total == SumSubtotal(SaleItems, r.sale_id)
         IN  IF db_ok /\ db_total >= 0
             THEN /\ Sales' = SetTotal(Sales, r.sale_id, db_total)
                  /\ req' = [req EXCEPT ![w].pc = "done", ![w].out = "synced",
                                        ![w].status = 201, ![w].total = Round2(db_total)]
             ELSE /\ req' = [req EXCEPT ![w].pc = "done", ![w].out = "total_failed",
                                        ![w].status = 500]
                  /\ UNCHANGED Sales
    /\ UNCHANGED <<Products, nextProductID, Customers, SaleItems, nextSaleID, session, now>>

\* ---------------------------------------------------------------- delete_sale_db
\* delete_sale_db: both DELETEs in one transaction, or neither on
\* sqlite3.Error; True once the transaction is committed
DeleteSaleDb(db_ok, sales, saleItems, sale_id) ==
    IF db_ok
    THEN [ok |-> TRUE, sales |-> {s \in sales : s.SaleID # sale_id},
          saleItems |-> DeleteItemsOf(saleItems, sale_id)]
    ELSE [ok |-> FALSE, sales |-> sales, saleItems |-> saleItems]

\* POST /sales/delete/<sale_id>
DeleteSale(w, sale_id) ==
    /\ w \in AdminWorkers
    /\ NoResponsePending
    /\ req[w].pc = "idle"
    /\ session[SessionOf(w)].logged_in
    /\ \E db_ok \in BOOLEAN :
         LET r == DeleteSaleDb(db_ok, Sales, SaleItems, sale_id)
         IN  /\ Sales' = r.sales
             /\ SaleItems' = r.saleItems
             /\ req' = [req EXCEPT ![w] =
                    [Idle EXCEPT !.pc = "done", !.action = "delete_sale",
                                 !.sale_id = sale_id,
                                 !.out = IF r.ok THEN "deleted" ELSE "delete_failed"]]
    /\ UNCHANGED <<Products, nextProductID, Customers, nextSaleID, session, now>>

\* ---------------------------------------------------------------- specifications
\* the requests that edit the session's cart
NextCart ==
    \/ \E s \in SessionIds : Login(s)
    \/ \E s \in SessionIds : Logout(s)
    \/ \E w \in Workers : AddItem(w)
    \/ \E w \in Workers : AddCustomItem(w)
    \/ \E w \in Workers : SetCustomer(w)
    \/ \E w \in Workers : RemoveItem(w)
    \/ \E w \in Workers : AdjustQty(w)
    \/ \E w \in Workers : ClearSale(w)
    \/ \E w \in Workers : Return(w)

\* the requests that write the Sales and SaleItems tables
NextSale ==
    \/ \E w \in Workers : FinalizeBegin(w)
    \/ \E w \in Workers : FinalizeAddItem(w)
    \/ \E w \in Workers : FinalizeUpdateTotal(w)
    \/ \E w \in Workers : ApiBegin(w)
    \/ \E w \in Workers : ApiItem(w)
    \/ \E w \in Workers : ApiUpdateTotal(w)
    \/ \E w \in Workers, sale_id \in 1..MaxSales : DeleteSale(w, sale_id)
    \/ \E w \in Workers : Return(w)

\* the carts a logged-in session can hold after at most three cart requests
CartStep(carts) ==
    carts
    \cup {PosAddItem(c, n, q, GetProductByName(Catalogue, n)).cs :
            c \in carts, n \in ProductNameInputs \ {"refill"}, q \in QuantityInputs}
    \cup {PosAddCustomItem(c, sel[1], sel[2], p, q).cs :
            c \in carts, sel \in CustomSelectInputs \X ManualNameInputs,
            p \in CustomPriceInputs \ {"-0.004"}, q \in CustomQuantityInputs}
    \cup {PosSetCustomer(c, n).cs : c \in carts, n \in CustomerInputs}

BuiltCarts == {c \in CartStep(CartStep(CartStep({EmptySale}))) : WithinBounds(c)}

\* a logged-in session holding a cart, ready to finalize
InitSale ==
    /\ Products = Catalogue
    /\ nextProductID = 2
    /\ Customers = Clientele
    /\ Sales = {}
    /\ SaleItems = <<>>
    /\ nextSaleID = 1
    /\ \E c \in BuiltCarts :
         session = [s \in SessionIds |->
                      IF s = "s1"
                      THEN [logged_in |-> TRUE, has_sale |-> TRUE, current_sale |-> c]
                      ELSE NoSession]
    /\ req = [w \in Workers |-> Idle]
    /\ now = StartClock

\* ---- remove_item on a cart whose prices are within math.isclose of each other
\* the catalogue after add_product("Gold", 1050000.001)
GoldCatalogue == {[ProductID |-> 2, ProductName |-> "Gold", Price |-> 1050000001]}

\* one cart request on a cart: add_item Gold, add_custom_item Gold at
\* 1050000, add_custom_item of a custom item at 20.00, set_customer
GoldStep(carts) ==
    carts
    \cup {PosAddItem(c, "Gold", "1", GetProductByName(GoldCatalogue, "Gold")).cs : c \in carts}
    \cup {PosAddCustomItem(c, "Gold", "  ", "1050000", "").cs : c \in carts}
    \cup {PosAddCustomItem(c, "Custom Item/Service", "  ", "20.004", "").cs : c \in carts}
    \cup {PosSetCustomer(c, " Ana ").cs : c \in carts}

GoldCarts == GoldStep(GoldStep({EmptySale}))

\* a logged-in session holding such a cart
InitRemove ==
    /\ Products = GoldCatalogue
    /\ nextProductID = 3
    /\ Customers = Clientele
    /\ Sales = {}
    /\ SaleItems = <<>>
    /\ nextSaleID = 1
    /\ \E c \in GoldCarts :
         session = [s \in SessionIds |->
                      IF s = "s1"
                      THEN [logged_in |-> TRUE, has_sale |-> TRUE, current_sale |-> c]
                      ELSE NoSession]
    /\ req = [w \in Workers |-> Idle]
    /\ now = StartClock

NextRemove ==
    \/ \E w \in Workers : RemoveItem(w)
    \/ \E w \in Workers : Return(w)

RemoveSpec == InitRemove /\ [][NextRemove]_vars

\* ---------------------------------------------------------------- products, customers
\* get_db_connection: sqlite3.connect fails when the store is unavailable
ConnOutcome(conn_ok) == IF conn_ok THEN "ok" ELSE "failed"

\* add_product_db: the new ProductID, or None on sqlite3.IntegrityError
\* (ProductName UNIQUE) and on any other sqlite3.Error, the one raised by
\* get_db_connection included
AddProductDb(conn_ok, products, next_id, name, price) ==
    IF conn_ok /\ price >= 0 /\ ~\E p \in products : p.ProductName = name
    THEN [value |-> next_id,
          products |-> products \cup {[ProductID |-> next_id, ProductName |-> name,
                                       Price |-> price]}]
    ELSE [value |-> 0, products |-> products]

\* get_product_by_id_db: the row, or None (also on sqlite3.Error)
ProductById(conn_ok, products, product_id) ==
    IF conn_ok THEN {p \in products : p.ProductID = product_id} ELSE {}

\* SaleItems.ProductName REFERENCES Products (ProductName) ON UPDATE CASCADE
CascadeProductName(saleItems, old, new) ==
    [i \in DOMAIN saleItems |->
        IF saleItems[i].ProductName = old
        THEN [saleItems[i] EXCEPT !.ProductName = new] ELSE saleItems[i]]

\* update_product_db: UPDATE Products SET ProductName, Price WHERE ProductID;
\* rowcount > 0, False on IntegrityError and on any other sqlite3.Error
UpdateProductDb(conn_ok, products, saleItems, product_id, name, price) ==
    LET rows == {p \in products : p.ProductID = product_id}
        taken == \E p \in products : p.ProductID # product_id /\ p.ProductName = name
    IN  IF conn_ok /\ rows # {} /\ ~taken /\ price >= 0
        THEN LET old == CHOOSE p \in rows : TRUE
             IN  [ok |-> TRUE,
                  products |-> (products \ rows)
                               \cup {[old EXCEPT !.ProductName = name, !.Price = price]},
                  saleItems |-> CascadeProductName(saleItems, old.ProductName, name)]
        ELSE [ok |-> FALSE, products |-> products, saleItems |-> saleItems]

\* delete_product_db: DELETE FROM Products WHERE ProductID; the foreign key
\* of SaleItems.ProductName (no ON DELETE action) refuses a referenced name
DeleteProductDbUnchecked(conn_ok, products, saleItems, product_id) ==
    [ok |-> conn_ok /\ \E p \in products : p.ProductID = product_id,
     products |-> IF conn_ok THEN {p \in products : p.ProductID # product_id} ELSE products]
DeleteProductDb(conn_ok, products, saleItems, product_id) ==
    LET rows == {p \in products : p.ProductID = product_id}
        referenced == \E p \in rows : \E i \in DOMAIN saleItems :
                         saleItems[i].ProductName = p.ProductName
    IN  IF conn_ok /\ rows # {} /\ ~referenced
        THEN [ok |-> TRUE, products |-> products \ rows]
        ELSE [ok |-> FALSE, products |-> products]

\* Sales.CustomerName REFERENCES Customers (CustomerName) ON UPDATE CASCADE,
\* compared under the NOCASE collation of the parent column (a change of
\* case only is no change of the key)
CascadeCustomerName(sales, old, new) ==
    {IF Lower(s.CustomerName) = Lower(old) /\ Lower(new) # Lower(old) THEN [s EXCEPT !.CustomerName = new] ELSE s :
        s \in sales}

\* update_customer_db: UPDATE Customers SET CustomerName ... WHERE CustomerID
UpdateCustomerDb(conn_ok, customers, sales, customer_id, name) ==
    LET rows == {c \in customers : c.CustomerID = customer_id}
        taken == \E c \in customers :
                    c.CustomerID # customer_id /\ Lower(c.CustomerName) = Lower(name)
    IN  IF conn_ok /\ rows # {} /\ ~taken
        THEN LET old == CHOOSE c \in rows : TRUE
             IN  [ok |-> TRUE,
                  customers |-> (customers \ rows) \cup {[old EXCEPT !.CustomerName = name]},
                  sales |-> CascadeCustomerName(sales, old.CustomerName, name)]
        ELSE [ok |-> FALSE, customers |-> customers, sales |-> sales]

ProductIdInputs == {1, 2, 3}
ProductFormNames == {"", "Refill", "Refill2"}
ProductFormPrices == {"abc", "-1", "20"}
CustomerIdInputs == {1, 2}
CustomerFormNames == {"", "Ana", "Anna"}

\* a request of the product and customer pages is ready to be handled
AdminReady(w) ==
    /\ w \in AdminWorkers
    /\ NoResponsePending
    /\ req[w].pc = "idle"
    /\ session[SessionOf(w)].logged_in

\* the response of a product or customer request
AdminRespond(w, action, id, name, price, conn_ok, out) ==
    req' = [req EXCEPT ![w] =
               [Idle EXCEPT !.pc = "done", !.action = action, !.id = id,
                            !.in = Input(name, NoneVal, price, NoneVal),
                            !.conn = ConnOutcome(conn_ok), !.out = out]]

\* the checks of the product form: name and price required, float(price) >= 0
ProductFormCheck(name, price_str) ==
    IF name = "" \/ price_str = "" THEN "required"
    ELSE IF ~ParseFloat(price_str).ok THEN "invalid_price"
    ELSE IF ParseFloat(price_str).v < 0 THEN "price_negative"
    ELSE "ok"

\* POST /products/add
AddProduct(w) ==
    /\ AdminReady(w)
    /\ \E name \in ProductFormNames, price_str \in ProductFormPrices, conn_ok \in BOOLEAN :
         LET check == ProductFormCheck(name, price_str)
             r == AddProductDb(conn_ok, Products, nextProductID, name, ParseFloat(price_str).v)
         IN  IF check # "ok"
             THEN /\ AdminRespond(w, "add_product", 0, name, price_str, TRUE, check)
                  /\ UNCHANGED <<Products, nextProductID>>
             ELSE /\ r.value # 0 => nextProductID <= MaxProducts
                  /\ Products' = r.products
                  /\ nextProductID' = IF r.value # 0 THEN nextProductID + 1 ELSE nextProductID
                  /\ AdminRespond(w, "add_product", r.value, name, price_str, conn_ok,
                                  IF r.value # 0 THEN "added" ELSE "add_failed")
    /\ UNCHANGED <<Customers, Sales, SaleItems, nextSaleID, session, now>>

\* POST /products/edit/<product_id>
EditProduct(w) ==
    /\ AdminReady(w)
    /\ \E product_id \in ProductIdInputs, name \in ProductFormNames,
          price_str \in ProductFormPrices, conn_ok \in BOOLEAN :
         LET check == ProductFormCheck(name, price_str)
             r == UpdateProductDb(conn_ok, Products, SaleItems, product_id, name,
                                  ParseFloat(price_str).v)
         IN  IF ProductById(conn_ok, Products, product_id) = {}
             THEN /\ AdminRespond(w, "edit_product", product_id, name, price_str, conn_ok,
                                  "not_found")
                  /\ UNCHANGED <<Products, SaleItems>>
             ELSE IF check # "ok"
             THEN /\ AdminRespond(w, "edit_product", product_id, name, price_str, conn_ok,
                                  check)
                  /\ UNCHANGED <<Products, SaleItems>>
             ELSE /\ Products' = r.products
                  /\ SaleItems' = r.saleItems
                  /\ AdminRespond(w, "edit_product", product_id, name, price_str, conn_ok,
                                  IF r.ok THEN "updated" ELSE "update_failed")
    /\ UNCHANGED <<nextProductID, Customers, Sales, nextSaleID, session, now>>

\* POST /products/delete/<product_id>
DeleteProduct(w) ==
    /\ AdminReady(w)
    /\ \E product_id \in ProductIdInputs, conn_ok \in BOOLEAN :
         LET r == DeleteProductDb(conn_ok, Products, SaleItems, product_id)
         IN  IF ProductById(conn_ok, Products, product_id) = {}
             THEN /\ AdminRespond(w, "delete_product", product_id, NoneVal, NoneVal,
                                  conn_ok, "not_found")
                  /\ UNCHANGED Products
             ELSE /\ Products' = r.products
                  /\ AdminRespond(w, "delete_product", product_id, NoneVal, NoneVal,
                                  conn_ok, IF r.ok THEN "deleted" ELSE "delete_failed")
    /\ UNCHANGED <<nextProductID, Customers, Sales, SaleItems, nextSaleID, session, now>>

\* POST /customers/edit/<customer_id>
EditCustomer(w) ==
    /\ AdminReady(w)
    /\ \E customer_id \in CustomerIdInputs, name \in CustomerFormNames, conn_ok \in BOOLEAN :
         LET r == UpdateCustomerDb(conn_ok, Customers, Sales, customer_id, name)
             found == conn_ok /\ \E c \in Customers : c.CustomerID = customer_id
         IN  IF ~found
             THEN /\ AdminRespond(w, "edit_customer", customer_id, name, NoneVal, conn_ok,
                                  "not_found")
                  /\ UNCHANGED <<Customers, Sales>>
             ELSE IF name = ""
             THEN /\ AdminRespond(w, "edit_customer", customer_id, name, NoneVal, conn_ok,
                                  "required")
                  /\ UNCHANGED <<Customers, Sales>>
             ELSE /\ Customers' = r.customers
                  /\ Sales' = r.sales
                  /\ AdminRespond(w, "edit_customer", customer_id, name, NoneVal, conn_ok,
                                  IF r.ok THEN "updated" ELSE "update_failed")
    /\ UNCHANGED <<Products, nextProductID, SaleItems, nextSaleID, session, now>>

\* the sales on record when the product and customer pages are used: none;
\* one sale of Ana with a Refill; that sale and a second one, entered as
\* "ana", with a Refill and a Wash
RecordedSales ==
    {[sales |-> {}, items |-> <<>>, next |-> 1],
     [sales |-> SetTotal({NewSaleRow(1, Clock(<<2024, 2, 27>>, DayTimes[2]), "Ana")}, 1, 120),
      items |-> <<SaleItemRow(1, "Refill", 1, 125)>>, next |-> 2],
     [sales |-> SetTotal(SetTotal({NewSaleRow(1, Clock(<<2024, 2, 27>>, DayTimes[2]), "Ana"),
                                   NewSaleRow(2, StartClock, "ana")}, 1, 120),
                         2, 20250),
      items |-> <<SaleItemRow(1, "Refill", 1, 125), SaleItemRow(2, "Refill", 2, 125),
                  SaleItemRow(2, "Wash", 1, 20000)>>, next |-> 3]}

WashCatalogue == Catalogue \cup {[ProductID |-> 2, ProductName |-> "Wash", Price |-> 20000]}

\* a logged-in session, two products, one customer and recorded sales
InitAdmin ==
    /\ Products = WashCatalogue
    /\ nextProductID = 3
    /\ Customers = Clientele
    /\ \E h \in RecordedSales :
         /\ Sales = h.sales
         /\ SaleItems = h.items
         /\ nextSaleID = h.next
    /\ session = [s \in SessionIds |->
                    [logged_in |-> TRUE, has_sale |-> FALSE, current_sale |-> EmptySale]]
    /\ req = [w \in Workers |-> Idle]
    /\ now = StartClock

NextAdmin ==
    \/ Tick
    \/ \E w \in Workers : AddProduct(w)
    \/ \E w \in Workers : EditProduct(w)
    \/ \E w \in Workers : DeleteProduct(w)
    \/ \E w \in Workers : EditCustomer(w)
    \/ \E w \in Workers : Return(w)

AdminSpec == InitAdmin /\ [][NextAdmin]_vars

\* ---------------------------------------------------------------- customer listing
\* customer names, as ORDER BY CustomerName COLLATE NOCASE orders them
NamesInOrder ==
    <<"Ana", "bea", "Cleo", "dan", "Eva", "finn", "Gia", "hugo", "Ida", "jon", "Kai",
     "lea", "Mia", "nico", "Ola", "pia", "Quin", "rosa", "Sam", "tess", "Uma",
     "vera", "Wim", "xena", "Yan", "zoe", "Zuzu">>

NameRank(name) == CHOOSE k \in DOMAIN NamesInOrder : NamesInOrder[k] = name

\* the Customers table after n customers were added, not in name order
CustomerRoll(n) ==
    {[CustomerID |-> k, CustomerName |-> NamesInOrder[((k * 7) % Len(NamesInOrder)) + 1]] :
        k \in 1..n}

\* the rows of a set in ORDER BY CustomerName COLLATE NOCASE
RECURSIVE OrderByName(_)
OrderByName(rows) ==
    IF rows = {} THEN <<>>
    ELSE LET first == CHOOSE c \in rows :
                         \A d \in rows : NameRank(c.CustomerName) <= NameRank(d.CustomerName)
         IN  <<first>> \o OrderByName(rows \ {first})

\* math.ceil(total / per_page)
CeilDiv(total, per_page) == (total + per_page - 1) \div per_page

\* count_total_customers_db: SELECT COUNT(*), 0 on sqlite3.Error
CountTotalCustomers(conn_ok, customers) == IF conn_ok THEN Cardinality(customers) ELSE 0

\* get_customers_paginated_db: ORDER BY CustomerName COLLATE NOCASE LIMIT
\* per_page OFFSET (page - 1) * per_page, [] on sqlite3.Error
GetCustomersPaginatedNextPage(conn_ok, customers, page, per_page) ==
    IF conn_ok
    THEN SubSeq(OrderByName(customers), page * per_page + 1,
                MinOf({(page + 1) * per_page, Cardinality(customers)}))
    ELSE <<>>
GetCustomersPaginated(conn_ok, customers, page, per_page) ==
    LET offset == (page - 1) * per_page
    IN  IF conn_ok
        THEN SubSeq(OrderByName(customers), offset + 1,
                    MinOf({offset + per_page, Cardinality(customers)}))
        ELSE <<>>

\* list_customers(page_num): the redirect to the last page, or the page;
\* count_ok and page_ok say whether each of the two repository calls got
\* its connection, conn whether every call since the client's first
\* request did
ListCustomersResponse(count_ok, page_ok, conn, customers, page_num, redirects) ==
    LET total_customers == CountTotalCustomers(count_ok, customers)
        customers_on_page == GetCustomersPaginated(page_ok, customers, page_num,
                                                   ITEMS_PER_PAGE)
    IN  IF customers_on_page = <<>> /\ page_num > 1 /\ total_customers > 0
        THEN [Idle EXCEPT !.pc = "done", !.action = "list_customers",
                          !.id = page_num, !.conn = conn,
                          !.out = "redirect", !.redirects = redirects,
                          !.page_num = IF total_customers > 0
                                       THEN CeilDiv(total_customers, ITEMS_PER_PAGE) ELSE 1]
        ELSE [Idle EXCEPT !.pc = "done", !.action = "list_customers",
                          !.id = page_num, !.conn = conn,
                          !.out = "page", !.redirects = redirects,
                          !.page_num = page_num, !.customers = customers_on_page,
                          !.total_pages = IF total_customers > 0
                                          THEN CeilDiv(total_customers, ITEMS_PER_PAGE)
                                          ELSE 0]

\* GET /customers/page/<page_num>
ListCustomers(w) ==
    /\ AdminReady(w)
    /\ \E page_num \in 1..MaxPage, count_ok \in BOOLEAN, page_ok \in BOOLEAN :
         req' = [req EXCEPT ![w] =
                    ListCustomersResponse(count_ok, page_ok,
                                          ConnOutcome(count_ok /\ page_ok),
                                          Customers, page_num, 0)]
    /\ UNCHANGED <<Products, nextProductID, Customers, Sales, SaleItems, nextSaleID, session, now>>

\* the client follows redirect(url_for('list_customers', page_num=last_page))
FollowRedirect(w) ==
    /\ w \in AdminWorkers
    /\ req[w].pc = "done"
    /\ req[w].action = "list_customers"
    /\ req[w].out = "redirect"
    /\ req[w].redirects < MaxRedirects
    /\ \E count_ok \in BOOLEAN, page_ok \in BOOLEAN :
         req' = [req EXCEPT ![w] =
                    ListCustomersResponse(count_ok, page_ok,
                                          ConnOutcome(count_ok /\ page_ok
                                                      /\ req[w].conn = "ok"),
                                          Customers, req[w].page_num,
                                          req[w].redirects + 1)]
    /\ UNCHANGED <<Products, nextProductID, Customers, Sales, SaleItems, nextSaleID, session, now>>

\* a logged-in session and a Customers table of any size up to MaxCustomers
InitPage ==
    /\ Products = Catalogue
    /\ nextProductID = 2
    /\ \E n \in 0..MaxCustomers : Customers = CustomerRoll(n)
    /\ Sales = {}
    /\ SaleItems = <<>>
    /\ nextSaleID = 1
    /\ session = [s \in SessionIds |->
                    [logged_in |-> TRUE, has_sale |-> FALSE, current_sale |-> EmptySale]]
    /\ req = [w \in Workers |-> Idle]
    /\ now = StartClock

NextPage ==
    \/ \E w \in Workers : ListCustomers(w)
    \/ \E w \in Workers : FollowRedirect(w)
    \/ \E w \in Workers : Return(w)

PageSpec == InitPage /\ [][NextPage]_vars

\* ---------------------------------------------------------------- reports
\* SUM(TotalAmount) over a group of Sales rows
RECURSIVE SumTotalAmount(_)
SumTotalAmount(rows) ==
    IF rows = {} THEN 0
    ELSE LET r == CHOOSE x \in rows : TRUE
         IN  r.TotalAmount + SumTotalAmount(rows \ {r})

\* SELECT DATE(SaleTimestamp) as SaleDay, SUM(TotalAmount) as DailyTotal
\* FROM Sales WHERE DATE(SaleTimestamp) >= ? AND DATE(SaleTimestamp) <= ?
\* GROUP BY SaleDay, as sales_dict = {row['SaleDay']: row['DailyTotal']}
DailyTotalsBeforeEnd(sales, start_date_str, end_date_str) ==
    LET rows == {r \in sales : /\ SqlDate(r.SaleTimestamp) >= start_date_str
                               /\ SqlDate(r.SaleTimestamp) < end_date_str}
    IN  [day \in {SqlDate(r.SaleTimestamp) : r \in rows} |->
            SumTotalAmount({r \in rows : SqlDate(r.SaleTimestamp) = day})]
DailyTotals(sales, start_date_str, end_date_str) ==
    LET rows == {r \in sales : /\ SqlDate(r.SaleTimestamp) >= start_date_str
                               /\ SqlDate(r.SaleTimestamp) <= end_date_str}
    IN  [day \in {SqlDate(r.SaleTimestamp) : r \in rows} |->
            SumTotalAmount({r \in rows : SqlDate(r.SaleTimestamp) = day})]

\* float(sales_dict.get(date_str_key, 0.0))
DailyTotalOf(sales_dict, date_str_key) ==
    IF date_str_key \in DOMAIN sales_dict THEN sales_dict[date_str_key] ELSE 0

\* current_date.strftime('%a')
WeekdayNames == <<"Mon", "Tue", "Wed", "Thu", "Fri", "Sat", "Sun">>

\* the result of a chart function whose store call raised
ChartError == [labels |-> <<>>, data |-> <<>>, total |-> 0, error |-> TRUE]

\* the loop of get_weekly_sales_chart_data_db: while current_date <=
\* end_date_obj, one label and one value per day
RECURSIVE WeeklyLoop(_, _, _, _)
WeeklyLoop(sales_dict, current_date, end_date_obj, chart) ==
    IF ToOrdinal(current_date) <= ToOrdinal(end_date_obj)
    THEN LET daily_total == DailyTotalOf(sales_dict, StrfDate(current_date))
         IN  WeeklyLoop(sales_dict, PlusDays(current_date, 1), end_date_obj,
                        [chart EXCEPT !.labels = Append(@, WeekdayNames[Weekday(current_date) + 1]),
                                      !.data = Append(@, daily_total),
                                      !.total = @ + daily_total])
    ELSE [chart EXCEPT !.total = Round2(@)]

\* get_weekly_sales_chart_data_db(start_date_obj, end_date_obj)
WeeklySalesChartData(conn_ok, sales, start_date_obj, end_date_obj) ==
    IF conn_ok
    THEN WeeklyLoop(DailyTotals(sales, StrfDate(start_date_obj), StrfDate(end_date_obj)),
                    start_date_obj, end_date_obj,
                    [labels |-> <<>>, data |-> <<>>, total |-> 0, error |-> FALSE])
    ELSE ChartError

\* the loop of get_monthly_sales_chart_data_db: for day_num in
\* range(1, num_days_in_month + 1)
RECURSIVE MonthlyLoop(_, _, _, _, _, _)
MonthlyLoop(sales_dict, year, month, day_num, num_days_in_month, chart) ==
    IF day_num <= num_days_in_month
    THEN LET daily_total == DailyTotalOf(sales_dict, StrfDate(<<year, month, day_num>>))
         IN  MonthlyLoop(sales_dict, year, month, day_num + 1, num_days_in_month,
                         [chart EXCEPT !.labels = Append(@, day_num),
                                       !.data = Append(@, daily_total),
                                       !.total = @ + daily_total])
    ELSE [chart EXCEPT !.total = Round2(@)]

\* get_monthly_sales_chart_data_db(year, month)
MonthlySalesChartData(conn_ok, sales, year, month) ==
    LET num_days_in_month == DaysInMonth(year, month)
    IN  IF conn_ok
        THEN MonthlyLoop(DailyTotals(sales, StrfDate(<<year, month, 1>>),
                                     StrfDate(<<year, month, num_days_in_month>>)),
                         year, month, 1, num_days_in_month,
                         [labels |-> <<>>, data |-> <<>>, total |-> 0, error |-> FALSE])
        ELSE ChartError

\* GET /reports/weekly: the chart of the week, Monday to Sunday, of today
\* (the item summary of the page is read from the store and kept nowhere)
WeeklyReport(w) ==
    /\ AdminReady(w)
    /\ \E conn_ok \in BOOLEAN :
         LET today == now.date
             week_start_date == PlusDays(today, 0 - Weekday(today))
             week_end_date == PlusDays(week_start_date, 6)
         IN  req' = [req EXCEPT ![w] =
                 [Idle EXCEPT !.pc = "done", !.action = "weekly_report",
                              !.conn = ConnOutcome(conn_ok),
                              !.range = <<week_start_date, week_end_date>>,
                              !.chart = WeeklySalesChartData(conn_ok, Sales, week_start_date,
                                                             week_end_date),
                              !.out = IF conn_ok THEN "report" ELSE "report_error"]]
    /\ UNCHANGED <<Products, nextProductID, Customers, Sales, SaleItems, nextSaleID, session, now>>

\* the (year, month) of /reports/monthly/<year>/<month>, <<0, 0>> for
\* /reports/monthly (year=None, month=None)
ReportMonthInputs ==
    {<<0, 0>>, <<2023, 2>>, <<2024, 2>>, <<2024, 3>>, <<2024, 4>>,
     <<2024, 13>>, <<1900, 1>>}

\* the month the page reports: today's when none is given, when month is
\* not in 1..12 or year not in today.year - 50 .. today.year + 5
ReportMonth(today, year_month) ==
    IF year_month = <<0, 0>> THEN <<today[1], today[2]>>
    ELSE IF ~(1 <= year_month[2] /\ year_month[2] <= 12) THEN <<today[1], today[2]>>
    ELSE IF ~(today[1] - 50 <= year_month[1] /\ year_month[1] <= today[1] + 5)
         THEN <<today[1], today[2]>>
    ELSE year_month

\* GET /reports/monthly
MonthlyReport(w) ==
    /\ AdminReady(w)
    /\ \E year_month \in ReportMonthInputs, conn_ok \in BOOLEAN :
         LET ym == ReportMonth(now.date, year_month)
         IN  req' = [req EXCEPT ![w] =
                 [Idle EXCEPT !.pc = "done", !.action = "monthly_report",
                              !.conn = ConnOutcome(conn_ok),
                              !.range = ym,
                              !.chart = MonthlySalesChartData(conn_ok, Sales, ym[1], ym[2]),
                              !.out = IF conn_ok THEN "report" ELSE "report_error"]]
    /\ UNCHANGED <<Products, nextProductID, Customers, Sales, SaleItems, nextSaleID, session, now>>

\* the instants at which the recorded sales of the reports were made: the
\* Sunday before the week of 26 February 2024, its Monday, the last
\* second of February, the first of March, the week's Sunday, the Monday after
ReportInstants ==
    <<Clock(<<2024, 2, 25>>, DayTimes[2]), Clock(<<2024, 2, 26>>, DayTimes[1]),
      Clock(<<2024, 2, 29>>, DayTimes[2]), Clock(<<2024, 3, 1>>, DayTimes[1]),
      Clock(<<2024, 3, 3>>, DayTimes[2]), Clock(<<2024, 3, 4>>, DayTimes[1])>>

\* what one recorded sale holds: a Refill (subtotal 0.12), a Wash, a Wash
\* whose sale was left at TotalAmount 0.0 by a partial failure
ReportSaleKinds ==
    {[name |-> "Refill", quantity |-> 1, price |-> 125, total |-> 120],
     [name |-> "Wash", quantity |-> 1, price |-> 20000, total |-> 20000],
     [name |-> "Wash", quantity |-> 1, price |-> 20000, total |-> 0]}

\* the Sales and SaleItems tables after n sales, made in id order at
\* instants that do not go back
ReportHistories ==
    UNION {{[sales |-> {SetTotal({NewSaleRow(k, ReportInstants[at[k]], "Ana")}, k,
                                  kind[k].total) : k \in 1..n},
             items |-> [k \in 1..n |-> SaleItemRow(k, kind[k].name, kind[k].quantity,
                                                   kind[k].price)],
             last |-> IF n = 0 THEN 1 ELSE at[n]] :
              at \in {f \in [1..n -> DOMAIN ReportInstants] :
                         \A j, k \in 1..n : j <= k => f[j] <= f[k]},
              kind \in [1..n -> ReportSaleKinds]} : n \in 0..MaxSales}

\* a logged-in session, recorded sales, and a clock not before the last sale
InitReport ==
    /\ Products = WashCatalogue
    /\ nextProductID = 3
    /\ Customers = Clientele
    /\ \E h \in ReportHistories :
         /\ Sales = UNION h.sales
         /\ SaleItems = h.items
         /\ nextSaleID = Len(h.items) + 1
         /\ \E k \in DOMAIN ReportInstants : k >= h.last /\ now = ReportInstants[k]
    /\ session = [s \in SessionIds |->
                    [logged_in |-> TRUE, has_sale |-> FALSE, current_sale |-> EmptySale]]
    /\ req = [w \in Workers |-> Idle]

NextReport ==
    \/ \E w \in Workers : WeeklyReport(w)
    \/ \E w \in Workers : MonthlyReport(w)
    \/ \E w \in Workers : Return(w)

ReportSpec == InitReport /\ [][NextReport]_vars

\* ---------------------------------------------------------------- connections
\* One repository call, step by step through its try / except / finally:
\* conn = None; try: conn = get_db_connection(); the statements; commit;
\* except sqlite3.Error: rollback if conn; finally: if conn: conn.close().
\* req[w].handle is the local variable conn, opened and closed count the
\* connections the call opened and closed.

\* the calls: add_sale_item_db, and the inline total updates of
\* pos_interface and of api_sync_sale
RepoOps == {"add_sale_item_db", "pos_total_update", "api_total_update"}

RepoSaleIds == {1, 3}
RepoProductNames == {"Refill", "Nope"}

\* finally: if conn: conn.close()
FinallyUnlessRaised(r) ==
    IF r.handle # NoneVal /\ ~r.raised
    THEN [r EXCEPT !.closed = @ + 1, !.handle = "closed"] ELSE r
Finally(r) ==
    IF r.handle # NoneVal THEN [r EXCEPT !.closed = @ + 1, !.handle = "closed"] ELSE r

\* the call is entered: conn = None
RepoCall(w) ==
    /\ w \in PosWorkers \cup ApiWorkers
    /\ req[w].pc = "idle"
    /\ Len(SaleItems) < MaxItemRows
    /\ \E op \in RepoOps, sale_id \in RepoSaleIds, product_name \in RepoProductNames :
         /\ op = "pos_total_update" => w \in PosWorkers
         /\ op = "api_total_update" => w \in ApiWorkers
         /\ op # "add_sale_item_db" => product_name = "Refill"
         /\ req' = [req EXCEPT ![w] =
                [Idle EXCEPT !.pc = "try", !.action = op, !.sale_id = sale_id,
                             !.in = Input(product_name, NoneVal, NoneVal, NoneVal)]]
    /\ UNCHANGED <<Products, nextProductID, Customers, Sales, SaleItems, nextSaleID, session, now>>

\* conn = get_db_connection(): the connection, or sqlite3.Error raised
RepoConnect(w) ==
    /\ req[w].pc = "try"
    /\ \E conn_ok \in BOOLEAN :
         req' = IF conn_ok
                THEN [req EXCEPT ![w].pc = "execute", ![w].handle = "conn",
                                 ![w].opened = @ + 1, ![w].conn = ConnOutcome(conn_ok)]
                ELSE [req EXCEPT ![w].pc = "except", ![w].raised = TRUE,
                                 ![w].conn = ConnOutcome(conn_ok)]
    /\ UNCHANGED <<Products, nextProductID, Customers, Sales, SaleItems, nextSaleID, session, now>>

\* the statements and conn.commit(): the INSERT of add_sale_item_db (one
\* Refill at its catalogue price), or SELECT SUM(Subtotal) and UPDATE
\* Sales SET TotalAmount; a constraint violation or a store error raises
RepoExecute(w) ==
    /\ req[w].pc = "execute"
    /\ \E db_ok \in BOOLEAN :
         LET r == req[w]
             accepted == IF r.action = "add_sale_item_db"
                         THEN SaleItemAccepted(Sales, Products, r.sale_id, r.in.name, 1)
                         ELSE TRUE
         IN  IF db_ok /\ accepted
             THEN /\ SaleItems' = IF r.action = "add_sale_item_db"
                                  THEN Append(SaleItems, SaleItemRow(r.sale_id, r.in.name, 1,
                                           GetProductByName(Products, r.in.name).Price))
                                  ELSE SaleItems
                  /\ Sales' = IF r.action = "add_sale_item_db" THEN Sales
                              ELSE SetTotal(Sales, r.sale_id, SumSubtotal(SaleItems, r.sale_id))
                  /\ req' = [req EXCEPT ![w].pc = "finally", ![w].out = "returned"]
             ELSE /\ req' = [req EXCEPT ![w].pc = "except", ![w].raised = TRUE,
                                        ![w].out = IF db_ok THEN "constraint" ELSE "store_error"]
                  /\ UNCHANGED <<Sales, SaleItems>>
    /\ UNCHANGED <<Products, nextProductID, Customers, nextSaleID, session, now>>

\* except sqlite3.Error: logging, rollback if conn, the failure value
RepoExcept(w) ==
    /\ req[w].pc = "except"
    /\ req' = [req EXCEPT ![w].pc = "finally",
                          ![w].out = IF req[w].handle = NoneVal THEN "no_connection" ELSE @]
    /\ UNCHANGED <<Products, nextProductID, Customers, Sales, SaleItems, nextSaleID, session, now>>

\* finally, and the call has returned
RepoFinally(w) ==
    /\ req[w].pc = "finally"
    /\ req' = [req EXCEPT ![w] = [Finally(req[w]) EXCEPT !.pc = "done"]]
    /\ UNCHANGED <<Products, nextProductID, Customers, Sales, SaleItems, nextSaleID, session, now>>

NextConn ==
    \/ \E w \in Workers : RepoCall(w)
    \/ \E w \in Workers : RepoConnect(w)
    \/ \E w \in Workers : RepoExecute(w)
    \/ \E w \in Workers : RepoExcept(w)
    \/ \E w \in Workers : RepoFinally(w)
    \/ \E w \in Workers : Return(w)

\* the tables of InitAdmin: two products, one customer and recorded sales
ConnSpec == InitAdmin /\ [][NextConn]_vars

\* ---------------------------------------------------------------- overlapping requests
\* The session is Flask's cookie session: a request carries the browser's
\* cookie, the handler works on the session decoded from it, and the
\* response's cookie replaces the browser's when it arrives.  A request of
\* a tab is sent and handled in one step (the cart handlers read nothing
\* else that changes) and its response is received in a later one.

\* the if / elif chain of pos_interface over the cart actions
PosHandle(cs, action, in, products) ==
    CASE action = "add_item" ->
           PosAddItem(cs, in.name, in.quantity, GetProductByName(products, in.name))
      [] action = "add_custom_item" ->
           PosAddCustomItem(cs, in.name, in.manual, in.price, in.quantity)
      [] action = "set_customer" -> PosSetCustomer(cs, in.name)
      [] action = "remove_item" -> PosRemoveItem(cs, in.name, in.price)
      [] action \in {"increase_qty", "decrease_qty"} ->
           PosAdjustQty(cs, action, in.name, in.price)

\* the POST /pos requests of the tabs
TabRequests ==
    {[action |-> "add_item", in |-> Input("Refill", NoneVal, NoneVal, "1")],
     [action |-> "decrease_qty", in |-> Input("Refill", NoneVal, "0.125", NoneVal)],
     [action |-> "set_customer", in |-> Input(" Ana ", NoneVal, NoneVal, NoneVal)],
     [action |-> "clear_sale", in |-> NoInput]}

\* the session a response carries, for a request that carried the session
\* sess: login_required redirects, clear_sale pops the cart, any other
\* action stores the handler's cart
TabResponse(sess, rq, products) ==
    IF ~sess.logged_in THEN [cookie |-> sess, out |-> "login_required"]
    ELSE IF rq.action = "clear_sale" THEN [cookie |-> WithoutSale(sess), out |-> "cleared"]
    ELSE LET r == PosHandle(CurrentSale(sess), rq.action, rq.in, products)
         IN  [cookie |-> WithSale(sess, r.cs), out |-> r.out]

\* the browser stores the cookie of a response
TabDeliverNowhere(sessions, s, cookie) == sessions
TabDeliverToAll(sessions, s, cookie) == [x \in DOMAIN sessions |-> cookie]
TabDeliver(sessions, s, cookie) == [sessions EXCEPT ![s] = cookie]

\* a tab sends a cart request, which is handled
TabPost(w) ==
    /\ w \in TabWorkers
    /\ req[w].pc = "idle"
    /\ \E rq \in TabRequests :
         LET sess == session[SessionOf(w)]
             r == TabResponse(sess, rq, Products)
         IN  /\ WithinBounds(CurrentSale(r.cookie))
             /\ req' = [req EXCEPT ![w] =
                    [Idle EXCEPT !.pc = "in_flight", !.action = rq.action, !.in = rq.in,
                                 !.out = r.out, !.sent = sess, !.cookie = r.cookie]]
    /\ UNCHANGED <<Products, nextProductID, Customers, Sales, SaleItems, nextSaleID, session, now>>

\* a tab sends GET /logout
TabLogout(w) ==
    /\ w \in TabWorkers
    /\ req[w].pc = "idle"
    /\ LET sess == session[SessionOf(w)]
       IN  req' = [req EXCEPT ![w] =
               [Idle EXCEPT !.pc = "in_flight", !.action = "logout", !.sent = sess,
                            !.out = IF sess.logged_in THEN "logged_out" ELSE "login_required",
                            !.cookie = IF sess.logged_in
                                       THEN WithoutSale([sess EXCEPT !.logged_in = FALSE])
                                       ELSE sess]]
    /\ UNCHANGED <<Products, nextProductID, Customers, Sales, SaleItems, nextSaleID, session, now>>

\* a tab sends action == 'finalize_sale', handled up to create_sale_db
TabFinalizeBegin(w) ==
    /\ w \in TabWorkers
    /\ req[w].pc = "idle"
    /\ session[SessionOf(w)].logged_in
    /\ LET sess == session[SessionOf(w)]
           cs == CurrentSale(sess)
           answer(out) == [Idle EXCEPT !.pc = "in_flight", !.action = "finalize_sale",
                                       !.out = out, !.cs = cs, !.sent = sess,
                                       !.cookie = WithSale(sess, cs)]
       IN  IF cs.items = <<>>
           THEN /\ req' = [req EXCEPT ![w] = answer("empty_sale")]
                /\ UNCHANGED <<Sales, nextSaleID>>
           ELSE \E db_ok \in BOOLEAN :
                  IF CreateSaleSucceeds(db_ok, cs.customer_name)
                  THEN /\ nextSaleID <= MaxSales
                       /\ Sales' = Sales \cup {NewSaleRow(nextSaleID, now, cs.customer_name)}
                       /\ nextSaleID' = nextSaleID + 1
                       /\ req' = [req EXCEPT ![w] =
                              [Idle EXCEPT !.pc = "add_items", !.action = "finalize_sale",
                                           !.cs = cs, !.sent = sess, !.sale_id = LastRowId(nextSaleID),
                                           !.i = 1]]
                  ELSE /\ req' = [req EXCEPT ![w] = answer("create_failed")]
                       /\ UNCHANGED <<Sales, nextSaleID>>
    /\ UNCHANGED <<Products, nextProductID, Customers, SaleItems, session, now>>

\* one turn of the add_sale_item_db loop of a tab's finalize
TabFinalizeAddItem(w) ==
    /\ w \in TabWorkers
    /\ req[w].pc = "add_items"
    /\ \E db_ok \in BOOLEAN :
         LET r == req[w]
             item == r.cs.items[r.i]
             added == AddSaleItemSucceeds(db_ok, r.sale_id, item.name, item.quantity)
             all == r.all_items_added /\ added
         IN  /\ SaleItems' = IF added
                             THEN Append(SaleItems, SaleItemRow(r.sale_id, item.name,
                                                               item.quantity, item.price))
                             ELSE SaleItems
             /\ req' = IF r.i < Len(r.cs.items)
                       THEN [req EXCEPT ![w].i = r.i + 1, ![w].all_items_added = all]
                       ELSE IF all
                       THEN [req EXCEPT ![w].pc = "update_total", ![w].all_items_added = all]
                       ELSE [req EXCEPT ![w].pc = "in_flight", ![w].out = "partial",
                                        ![w].all_items_added = all,
                                        ![w].cookie = WithSale(r.sent, r.cs)]
    /\ UNCHANGED <<Products, nextProductID, Customers, Sales, nextSaleID, session, now>>

\* the total update of a tab's finalize
TabFinalizeUpdateTotal(w) ==
    /\ w \in TabWorkers
    /\ req[w].pc = "update_total"
    /\ \E db_ok \in BOOLEAN :
         LET r == req[w]
             final_total == SumSubtotal(SaleItems, r.sale_id)
         IN  IF db_ok /\ final_total >= 0
             THEN /\ Sales' = SetTotal(Sales, r.sale_id, final_total)
                  /\ req' = [req EXCEPT ![w].pc = "in_flight", ![w].out = "success",
                                        ![w].total = final_total,
                                        ![w].cookie = WithoutSale(r.sent)]
             ELSE /\ req' = [req EXCEPT ![w].pc = "in_flight", ![w].out = "total_failed",
                                        ![w].cookie = WithSale(r.sent, r.cs)]
                  /\ UNCHANGED Sales
    /\ UNCHANGED <<Products, nextProductID, Customers, SaleItems, nextSaleID, session, now>>

\* the response reaches the browser
TabReceive(w) ==
    /\ w \in TabWorkers
    /\ req[w].pc = "in_flight"
    /\ session' = TabDeliver(session, SessionOf(w), req[w].cookie)
    /\ req' = [req EXCEPT ![w].pc = "done"]
    /\ UNCHANGED <<Products, nextProductID, Customers, Sales, SaleItems, nextSaleID, now>>

TabStep(w) ==
    \/ TabPost(w)
    \/ TabLogout(w)
    \/ TabFinalizeBegin(w)
    \/ TabFinalizeAddItem(w)
    \/ TabFinalizeUpdateTotal(w)
    \/ TabReceive(w)
    \/ Return(w)

\* two tabs of the browser of session s1
BrowserTabs == {w \in TabWorkers : SessionOf(w) = "s1"}

\* one tab of each of the two browsers
Tills == {"tab1", "till2"}

\* session s1 logged in with an Empty cart
InitTab ==
    /\ Products = Catalogue
    /\ nextProductID = 2
    /\ Customers = Clientele
    /\ Sales = {}
    /\ SaleItems = <<>>
    /\ nextSaleID = 1
    /\ session = [s \in SessionIds |->
                    IF s = "s1" THEN [NoSession EXCEPT !.logged_in = TRUE] ELSE NoSession]
    /\ req = [w \in Workers |-> Idle]
    /\ now = StartClock

NextTab == \E w \in BrowserTabs : TabStep(w)

TabSpec == InitTab /\ [][NextTab]_vars

\* both sessions logged in with Empty carts
InitTill ==
    /\ Products = Catalogue
    /\ nextProductID = 2
    /\ Customers = Clientele
    /\ Sales = {}
    /\ SaleItems = <<>>
    /\ nextSaleID = 1
    /\ session = [s \in SessionIds |-> [NoSession EXCEPT !.logged_in = TRUE]]
    /\ req = [w \in Workers |-> Idle]
    /\ now = StartClock

NextTill == \E w \in Tills : TabStep(w)

TillSpec == InitTill /\ [][NextTill]_vars

Next == NextCart \/ NextSale \/ NextRemove \/ NextAdmin \/ NextPage \/ NextReport
        \/ NextTab \/ NextTill \/ NextConn

Spec == Init /\ [][Next]_vars

CartSpec == Init /\ [][NextCart]_vars

SaleSpec == InitSale /\ [][NextSale]_vars

\* the cart's quantities adjusted at the counter and the cart finalized
NextCounter ==
    \/ \E w \in Workers : AdjustQty(w)
    \/ \E w \in Workers : FinalizeBegin(w)
    \/ \E w \in Workers : FinalizeAddItem(w)
    \/ \E w \in Workers : FinalizeUpdateTotal(w)
    \/ \E w \in Workers : Return(w)

CounterSpec == InitSale /\ [][NextCounter]_vars

\* ---------------------------------------------------------------- properties
\* the step in which client w gets the response to its request
Completes(w) == req[w].pc # "done" /\ req'[w].pc = "done"

\* the step in which a cart request of client w is handled
CartStepOf(w, actions) ==
    req[w].pc = "idle" /\ req'[w].pc = "done" /\ req'[w].action \in actions

CartBefore(w) == CurrentSale(session[SessionOf(w)])

CartAfter(w) == CurrentSale(session'[SessionOf(w)])

RECURSIVE Total(_)
Total(amounts) == IF amounts = <<>> THEN 0 ELSE amounts[1] + Total(Tail(amounts))

LineSubtotals(cs) == [i \in DOMAIN cs.items |-> cs.items[i].subtotal]

\* the indexes of the cart lines with this name and this unit price
LinesWith(cs, name, price) ==
    {i \in DOMAIN cs.items : cs.items[i].name = name /\ cs.items[i].price = price}

Without(items, i) == [j \in 1..(Len(items) - 1) |-> IF j < i THEN items[j] ELSE items[j + 1]]

\* C1: in every state reached by cart requests (add_item, add_custom_item,
\* increase_qty, decrease_qty, remove_item, set_customer) from the Empty
\* cart, the cart's total is the sum of the subtotals of its lines.
C1_TotalIsSumOfSubtotals ==
    \A s \in SessionIds :
        CurrentSale(session[s]).total = Total(LineSubtotals(CurrentSale(session[s])))

\* a cart of two lines, the second just added, whose subtotals differ
C1_Witness ==
    /\ req["pos"].pc = "done"
    /\ req["pos"].out = "added"
    /\ Len(CurrentSale(session["s1"]).items) = 2
    /\ CurrentSale(session["s1"]).items[1].subtotal # CurrentSale(session["s1"]).items[2].subtotal
    /\ CurrentSale(session["s1"]).total > 0

C10_InvalidAddRejected ==
    [][\A w \in PosWorkers :
         /\ (/\ CartStepOf(w, {"add_item"})
             /\ ParseInt(req'[w].in.quantity).ok
             /\ ParseInt(req'[w].in.quantity).v <= 0)
            => (req'[w].out # "added" /\ CartAfter(w) = CartBefore(w))
         /\ (/\ CartStepOf(w, {"add_custom_item"})
             /\ \/ ParseFloat(req'[w].in.price).ok /\ ParseFloat(req'[w].in.price).v < 0
                \/ ParseInt(req'[w].in.quantity).ok /\ ParseInt(req'[w].in.quantity).v <= 0)
            => (req'[w].out # "added" /\ CartAfter(w) = CartBefore(w))]_vars

\* ---- the Sales and SaleItems tables, as the properties read them
RowsOfSale(rows, sale_id) == SelectSeq(rows, LAMBDA r : r.SaleID = sale_id)

AmountsOf(rows) == [i \in DOMAIN rows |-> rows[i].Subtotal]

SalesWithId(sales, sale_id) == {s \in sales : s.SaleID = sale_id}

\* the step in which the POS finalize of client w ends
FinalizeEnds(w) == Completes(w) /\ req'[w].action = "finalize_sale"

\* the step in which the POST /api/sales of client w ends
ApiEnds(w) == Completes(w) /\ req'[w].action = "api_sales"

\* C2: when the request that created a Sale (POS finalize or POST
\* /api/sales) has completed with all, some or none of its items inserted,
\* and without a store error in its total update, the Sale's TotalAmount is
\* the sum of the Subtotal of its SaleItems.
C2_TotalAmountIsSumOfItems ==
    [][\A w \in Workers :
         Completes(w) /\ req'[w].out \in {"success", "partial", "synced"} =>
            \A s \in SalesWithId(Sales', req'[w].sale_id) :
                s.TotalAmount = Total(AmountsOf(RowsOfSale(SaleItems', s.SaleID)))]_vars

\* C3: a POS finalize that obtained a sale id and in which some but not all
\* insertions failed is reported as a partial failure, and its Sale row
\* exists with TotalAmount = the sum of the subtotals that were persisted.
C3_PartialFailureRecalculates ==
    [][\A w \in PosWorkers :
         (/\ FinalizeEnds(w)
          /\ req'[w].sale_id > 0
          /\ ~req'[w].all_items_added
          /\ RowsOfSale(SaleItems', req'[w].sale_id) # <<>>) =>
            /\ req'[w].out = "partial"
            /\ SalesWithId(Sales', req'[w].sale_id) # {}
            /\ \A s \in SalesWithId(Sales', req'[w].sale_id) :
                 s.TotalAmount = Total(AmountsOf(RowsOfSale(SaleItems', s.SaleID)))]_vars

\* what C4 says of the rows of a finalize that succeeded in every step,
\* given how a row's Subtotal follows from its quantity and unit price
FinalizePersists(w, subtotal(_, _)) ==
    LET r == req'[w]
        rows == RowsOfSale(SaleItems', r.sale_id)
    IN  /\ Cardinality(SalesWithId(Sales', r.sale_id)) = 1
        /\ \A s \in SalesWithId(Sales', r.sale_id) :
             /\ s.CustomerName = r.cs.customer_name
             /\ s.TotalAmount = Total(AmountsOf(rows))
        /\ Len(rows) = Len(r.cs.items)
        /\ \A i \in DOMAIN rows :
             /\ rows[i].ProductName = r.cs.items[i].name
             /\ rows[i].Quantity = r.cs.items[i].quantity
             /\ rows[i].PriceAtSale = r.cs.items[i].price
             /\ rows[i].Subtotal = subtotal(rows[i].Quantity, rows[i].PriceAtSale)

Product(quantity, price) == quantity * price

\* to the nearest cent, an exact half to the even cent
RoundedProduct(quantity, price) ==
    LET m == quantity * price
        down == (m \div 10) * 10
    IN  IF m - down < 5 \/ (m - down = 5 /\ (m \div 10) % 2 = 0) THEN down ELSE down + 10

\* C4 as claimed: a finalize of a non-empty cart in which create_sale, every
\* add_sale_item and the total update succeed leaves one Sale row with the
\* cart's customer, one SaleItem per line in cart order with the line's
\* name, quantity and price and Subtotal = quantity x unit price, and
\* TotalAmount = the sum of the subtotals.
C4_FinalizeRoundTripExact ==
    [][\A w \in PosWorkers :
         FinalizeEnds(w) /\ req'[w].out = "success" => FinalizePersists(w, Product)]_vars

\* C4 as amended: the same, with Subtotal = quantity x unit price rounded to
\* two decimals, for a sale that no delete_sale removed during the request.
C4_FinalizeRoundTrip ==
    [][\A w \in PosWorkers :
         (/\ FinalizeEnds(w)
          /\ req'[w].out = "success"
          /\ SalesWithId(Sales', req'[w].sale_id) # {}) =>
            FinalizePersists(w, RoundedProduct)]_vars

\* a two-line cart persisted whole, one subtotal rounded (1 x 0.125 -> 0.12)
C4_Witness ==
    /\ req["pos"].pc = "done"
    /\ req["pos"].out = "success"
    /\ Len(req["pos"].cs.items) = 2
    /\ Len(RowsOfSale(SaleItems, req["pos"].sale_id)) = 2
    /\ \E s \in Sales : s.SaleID = req["pos"].sale_id /\ s.TotalAmount = 20120

\* C5: a finalize that obtains no sale id (empty cart, or create_sale
\* failed) creates no Sale and no SaleItems row and leaves the cart (lines,
\* customer, total) as it was.
C5_NoSaleIdChangesNothing ==
    [][\A w \in PosWorkers :
         FinalizeEnds(w) /\ req'[w].sale_id = 0 =>
            /\ req'[w].out \in {"empty_sale", "create_failed"}
            /\ Sales' = Sales
            /\ SaleItems' = SaleItems
            /\ CartAfter(w) = CartBefore(w)
            /\ (CartBefore(w).items = <<>>) = (req'[w].out = "empty_sale")]_vars

\* create_sale failed for a cart of two lines, which is still in the session
C5_Witness ==
    /\ req["pos"].pc = "done"
    /\ req["pos"].out = "create_failed"
    /\ Len(CurrentSale(session["s1"]).items) = 2
    /\ Sales = {}

\* C6: after a POS finalize that obtained a sale id the cart is Empty (no
\* lines, customer "N/A", total 0) if every insertion and the total update
\* succeeded, and is the cart of before the request if an insertion failed.
C6_CartAfterFinalize ==
    [][\A w \in PosWorkers :
         FinalizeEnds(w) /\ req'[w].sale_id > 0 =>
            /\ req'[w].out = "success" => CartAfter(w) = EmptySale
            /\ ~req'[w].all_items_added =>
                 CartAfter(w) = CartBefore(w) /\ CartAfter(w).items # <<>>]_vars

\* a finalize whose second insertion failed: the first line is persisted
\* and the cart of two lines is still in the session
C6_Witness ==
    /\ req["pos"].pc = "done"
    /\ req["pos"].out = "partial"
    /\ Len(RowsOfSale(SaleItems, req["pos"].sale_id)) = 1
    /\ CurrentSale(session["s1"]) = req["pos"].cs
    /\ Len(req["pos"].cs.items) = 2

\* C7: a POST /api/sales with a valid API key and a non-empty items list
\* creates exactly one Sale row and answers 201 with total_amount_synced =
\* the persisted TotalAmount = the sum of the subtotals persisted for the
\* sale; one whose items field is missing, not a list or empty answers 400
\* and creates no Sale row.
C7_ApiSyncAnswers ==
    [][\A w \in ApiWorkers :
         ApiEnds(w) /\ req'[w].out # "unauthorized" =>
            IF req'[w].in.name = "items"
            THEN /\ req'[w].status = 201
                 /\ Cardinality(SalesWithId(Sales', req'[w].sale_id)) = 1
                 /\ \A s \in SalesWithId(Sales', req'[w].sale_id) :
                      /\ s.TotalAmount = req'[w].total
                      /\ s.TotalAmount = Total(AmountsOf(RowsOfSale(SaleItems', s.SaleID)))
            ELSE /\ req'[w].status = 400
                 /\ req'[w].sale_id = 0
                 /\ Sales' = Sales]_vars

\* C8: a POST /api/sales one of whose items fails validation (missing
\* field, bad number format, quantity <= 0, price < 0) never reaches the
\* repository: when it ends, no Sale row and no SaleItems row of the request
\* exists.
C8_InvalidItemMutatesNothing ==
    [][\A w \in ApiWorkers :
         ApiEnds(w) /\ req'[w].invalid > 0 =>
            /\ SalesWithId(Sales', req'[w].sale_id) = {}
            /\ RowsOfSale(SaleItems', req'[w].sale_id) = <<>>]_vars

\* ---- add_item and add_custom_item, as the properties read them
\* the quantity an add request asks for (add_custom_item: '' reads as 1)
AskedQuantity(r) ==
    IF r.action = "add_custom_item" /\ r.in.quantity = "" THEN 1
    ELSE IF r.in.quantity = "1" THEN 1
    ELSE IF r.in.quantity = "2" THEN 2
    ELSE 0

\* whether price is the unit price an add request asks for: the catalogue
\* price of a product (add_item), the form's price to two decimals
\* (add_custom_item)
AskedPrice(r, price) ==
    IF r.action = "add_item" THEN \E p \in Products : p.Price = price
    ELSE \/ r.in.price = "20.004" /\ price = 20000
         \/ r.in.price = "-0.004" /\ price = 0

SameKey(a, b) == a.name = b.name /\ a.price = b.price

NoTwoLinesShareKey(cs) ==
    \A i, j \in DOMAIN cs.items : SameKey(cs.items[i], cs.items[j]) => i = j

\* line i grew by q, every other line is as it was
MergedInto(before, after, i, q) ==
    /\ Len(after) = Len(before)
    /\ SameKey(after[i], before[i])
    /\ after[i].quantity = before[i].quantity + q
    /\ after[i].subtotal = RoundedProduct(after[i].quantity, after[i].price)
    /\ \A j \in DOMAIN before : j # i => after[j] = before[j]

\* one line of quantity q is new at the end, with a key no line had
AppendedTo(before, after, q) ==
    /\ Len(after) = Len(before) + 1
    /\ \A j \in DOMAIN before : after[j] = before[j]
    /\ after[Len(after)].quantity = q
    /\ after[Len(after)].subtotal = RoundedProduct(q, after[Len(after)].price)
    /\ \A j \in DOMAIN before : ~SameKey(before[j], after[Len(after)])

\* C11: an add_item or add_custom_item that is accepted with quantity q
\* either grows by q the one line with the same name and unit price, the
\* number of lines unchanged, or appends one new line at the end when no
\* line has that name and price; every other line (one of the same name and
\* another price included) is untouched; and in every cart no two lines
\* have the same (name, unit price).
C11_MergeByNameAndPrice ==
    [][/\ \A s \in SessionIds : NoTwoLinesShareKey(CurrentSale(session'[s]))
       /\ \A w \in PosWorkers :
            CartStepOf(w, {"add_item", "add_custom_item"}) /\ req'[w].out = "added" =>
               LET before == CartBefore(w).items
                   after == CartAfter(w).items
                   q == AskedQuantity(req'[w])
                   grown == {i \in DOMAIN before : MergedInto(before, after, i, q)}
                   touched == IF grown # {} THEN grown ELSE {Len(after)}
               IN  /\ q > 0
                   /\ grown # {} \/ AppendedTo(before, after, q)
                   /\ \A i \in touched :
                        /\ AskedPrice(req'[w], after[i].price)
                        /\ req'[w].action = "add_item" => after[i].name = req'[w].in.name]_vars

\* a line named Refill at 20.00 was appended to a cart holding Refill at
\* 0.125: same name, another price, two lines
C11_Witness ==
    /\ req["pos"].pc = "done"
    /\ req["pos"].action = "add_custom_item"
    /\ req["pos"].out = "added"
    /\ Len(CurrentSale(session["s1"]).items) = 2
    /\ CurrentSale(session["s1"]).items[1].name = "Refill"
    /\ CurrentSale(session["s1"]).items[2].name = "Refill"
    /\ CurrentSale(session["s1"]).items[1].price = 125
    /\ CurrentSale(session["s1"]).items[2].price = 20000

\* C12: a remove_item that removes anything removes one line, of the name
\* asked for, and leaves every other line as it was and in the same order,
\* the customer unchanged and the total recomputed; one that removes
\* nothing leaves the cart unchanged and says that nothing was removed.
C12_RemoveOneLine ==
    [][\A w \in PosWorkers :
         CartStepOf(w, {"remove_item"}) =>
            IF req'[w].out = "removed"
            THEN /\ \E i \in DOMAIN CartBefore(w).items :
                      /\ CartBefore(w).items[i].name = req'[w].in.name
                      /\ CartAfter(w).items = Without(CartBefore(w).items, i)
                 /\ CartAfter(w).customer_name = CartBefore(w).customer_name
                 /\ CartAfter(w).total = Total(LineSubtotals(CartAfter(w)))
            ELSE /\ CartAfter(w) = CartBefore(w)
                 /\ req'[w].out \in {"no_match", "invalid_data"}]_vars

\* the customer name the form value stands for: surrounding blanks
\* dropped, and "N/A" when nothing is left or the field is absent
NamedCustomer(form_name) ==
    CASE form_name = " Ana " -> "Ana"
      [] form_name \in {NoneVal, "", "  "} -> "N/A"
      [] OTHER -> form_name

\* C13: set_customer replaces the cart's customer by the name given, an
\* empty or all-blank name by "N/A", and leaves lines and total unchanged;
\* in every state the cart's customer name is not the empty string.
C13_SetCustomerOnly ==
    [][/\ \A s \in SessionIds : CurrentSale(session'[s]).customer_name # ""
       /\ \A w \in PosWorkers :
            CartStepOf(w, {"set_customer"}) =>
               /\ CartAfter(w).customer_name = NamedCustomer(req'[w].in.name)
               /\ CartAfter(w).items = CartBefore(w).items
               /\ CartAfter(w).total = CartBefore(w).total]_vars

\* a cart with a line whose customer was just set from an all-blank name
C13_Witness ==
    /\ req["pos"].pc = "done"
    /\ req["pos"].action = "set_customer"
    /\ req["pos"].in.name = "  "
    /\ CurrentSale(session["s1"]).customer_name = "N/A"
    /\ Len(CurrentSale(session["s1"]).items) = 1
    /\ CurrentSale(session["s1"]).total > 0

\* C14: after clear_sale and after logout, from any cart, the session's
\* cart is the Empty cart (no lines, customer "N/A", total 0): a session
\* that is not logged in holds the Empty cart, and so does one that has
\* just logged in.
C14_ClearAndLogoutEmpty ==
    [][/\ \A w \in PosWorkers :
            CartStepOf(w, {"clear_sale"}) =>
               CartAfter(w) = [items |-> <<>>, customer_name |-> "N/A", total |-> 0]
       /\ \A s \in SessionIds :
            session[s].logged_in # session'[s].logged_in =>
               CurrentSale(session'[s]) = [items |-> <<>>, customer_name |-> "N/A", total |-> 0]
       /\ \A s \in SessionIds :
            ~session'[s].logged_in =>
               CurrentSale(session'[s]) = [items |-> <<>>, customer_name |-> "N/A", total |-> 0]]_vars

\* clear_sale has just answered for a cart of two lines and customer Ana,
\* and the session holds no cart
C14_Witness ==
    /\ req["pos"].pc = "done"
    /\ req["pos"].action = "clear_sale"
    /\ Len(req["pos"].cs.items) = 2
    /\ req["pos"].cs.customer_name = "Ana"
    /\ ~session["s1"].has_sale
    /\ CurrentSale(session["s1"]).items = <<>>

\* the step in which a delete_sale request of client w is answered
DeleteEnds(w) == Completes(w) /\ req'[w].action = "delete_sale"

\* C15: delete_sale answers success only if the Sale row was removed by
\* that call: for a sale id with no Sale row it answers failure.
C15_DeleteReportsRemoval ==
    [][\A w \in AdminWorkers :
         DeleteEnds(w) /\ req'[w].out = "deleted" =>
            /\ SalesWithId(Sales, req'[w].sale_id) # {}
            /\ SalesWithId(Sales', req'[w].sale_id) = {}]_vars

\* C16: under every interleaving of POS finalize, POST /api/sales and
\* delete_sale, every SaleItems row belongs to exactly one existing Sale
\* row, and when a delete_sale succeeds neither the Sale nor any SaleItems
\* row of that sale id remains.
C16_NoOrphanItems ==
    [][/\ \A i \in DOMAIN SaleItems' :
            Cardinality(SalesWithId(Sales', SaleItems'[i].SaleID)) = 1
       /\ \A w \in AdminWorkers :
            DeleteEnds(w) /\ req'[w].out = "deleted" =>
               /\ SalesWithId(Sales', req'[w].sale_id) = {}
               /\ RowsOfSale(SaleItems', req'[w].sale_id) = <<>>
               /\ \A i \in DOMAIN SaleItems' :
                    SaleItems'[i].SaleID # req'[w].sale_id => SaleItems'[i] \in
                       {SaleItems[j] : j \in DOMAIN SaleItems}]_vars

\* a sale is deleted while the POS finalize that created it is between two
\* of its insertions, and another sale still has its item
C16_Witness ==
    /\ req["admin"].pc = "done"
    /\ req["admin"].out = "deleted"
    /\ req["pos"].pc = "add_items"
    /\ req["pos"].i = 2
    /\ req["pos"].sale_id = req["admin"].sale_id
    /\ SalesWithId(Sales, req["pos"].sale_id) = {}
    /\ Len(SaleItems) = 1
    /\ SaleItems[1].SaleID # req["pos"].sale_id

\* the step in which a product or customer request of client w is answered
AdminEnds(w, actions) == Completes(w) /\ req'[w].action \in actions

ProductNamesOnRecord(saleItems) == [i \in DOMAIN saleItems |-> saleItems[i].ProductName]

CustomerNamesOnRecord(sales) == {<<s.SaleID, s.CustomerName>> : s \in sales}

\* C17: renaming a Product or a Customer alters no historical record: every
\* SaleItems.ProductName and every Sales.CustomerName is the same after the
\* rename as before.
C17_RenameKeepsHistory ==
    [][\A w \in AdminWorkers :
         AdminEnds(w, {"edit_product", "edit_customer"}) =>
            /\ ProductNamesOnRecord(SaleItems') = ProductNamesOnRecord(SaleItems)
            /\ CustomerNamesOnRecord(Sales') = CustomerNamesOnRecord(Sales)]_vars

\* C18: when opening the connection fails, a repository operation
\* propagates a fatal error to its caller: the request does not end with
\* the outcome of an ordinary failure (the one a duplicate name or a
\* missing row gives).
C18_ConnectionFailurePropagates ==
    [][\A w \in AdminWorkers :
         AdminEnds(w, {"add_product", "edit_product", "delete_product", "edit_customer"})
         /\ req'[w].conn = "failed" =>
            req'[w].out \notin {"add_failed", "not_found", "update_failed", "delete_failed"}]_vars

\* C19: delete_product on a product whose name a SaleItems row refers to
\* fails without raising: the request reports the failure, the product row
\* is still there and no SaleItems row is changed or removed.
C19_ReferencedProductStays ==
    [][\A w \in AdminWorkers :
         AdminEnds(w, {"delete_product"}) =>
            \A p \in Products :
               (/\ p.ProductID = req'[w].id
                /\ \E i \in DOMAIN SaleItems : SaleItems[i].ProductName = p.ProductName) =>
                  /\ req'[w].out \in {"delete_failed", "not_found"}
                  /\ req'[w].conn = "ok" => req'[w].out = "delete_failed"
                  /\ p \in Products'
                  /\ SaleItems' = SaleItems]_vars

\* the store was available, the product sold in two sales was asked to be
\* deleted, and it is still in the catalogue
C19_Witness ==
    /\ req["admin"].pc = "done"
    /\ req["admin"].action = "delete_product"
    /\ req["admin"].conn = "ok"
    /\ req["admin"].out = "delete_failed"
    /\ \E p \in Products :
         /\ p.ProductID = req["admin"].id
         /\ Cardinality({i \in DOMAIN SaleItems : SaleItems[i].ProductName = p.ProductName}) = 2

\* ---- the customer listing, as the properties read it
\* the customers that precede c by name
Before(c) == {d \in Customers : NameRank(d.CustomerName) < NameRank(c.CustomerName)}

\* the least number of pages of size that hold n entries
PagesFor(n, size) == CHOOSE t \in 0..n : t * size >= n /\ (t = 0 \/ (t - 1) * size < n)

\* how many entries page p of size holds when there are n
EntriesOn(p, n, size) ==
    IF p * size <= n THEN size ELSE IF (p - 1) * size < n THEN n - (p - 1) * size ELSE 0

\* the step in which a customer listing request of client w is answered,
\* the one a redirect leads to included
ListEnds(w) ==
    /\ req'[w] # req[w]
    /\ req'[w].pc = "done"
    /\ req'[w].action = "list_customers"

\* C20: when the store answers, page p of the customer listing holds the
\* customers at offsets (p-1)*S .. min(p*S, N)-1 of the customers ordered
\* by name and reports totalPages = ceil(N/S); a request for a page
\* p > ceil(N/S) with N > 0 is redirected to page ceil(N/S), which is not
\* empty, so that the client is redirected at most once.
C20_CustomerPages ==
    [][\A w \in AdminWorkers :
         ListEnds(w) /\ req'[w].conn = "ok" =>
            LET r == req'[w]
                N == Cardinality(Customers)
                S == 10
                asked == r.id
            IN  /\ (N > 0 /\ asked > PagesFor(N, S)) =>
                     /\ r.out = "redirect"
                     /\ r.page_num = PagesFor(N, S)
                     /\ EntriesOn(r.page_num, N, S) > 0
                /\ (N = 0 \/ asked <= PagesFor(N, S)) =>
                     /\ r.out = "page"
                     /\ r.total_pages = PagesFor(N, S)
                     /\ Len(r.customers) = EntriesOn(asked, N, S)
                     /\ \A j \in DOMAIN r.customers :
                          /\ r.customers[j] \in Customers
                          /\ Cardinality(Before(r.customers[j])) = (asked - 1) * S + j - 1
                /\ r.redirects <= 1
                /\ r.redirects = 1 => r.out = "page"]_vars

\* 25 customers: page 4 was asked for, the client was redirected once and
\* now has page 3, with 5 customers, of 3 pages
C20_Witness ==
    /\ Cardinality(Customers) = 25
    /\ req["admin"].pc = "done"
    /\ req["admin"].action = "list_customers"
    /\ req["admin"].out = "page"
    /\ req["admin"].redirects = 1
    /\ req["admin"].page_num = 3
    /\ Len(req["admin"].customers) = 5
    /\ req["admin"].total_pages = 3

\* ---- the charts, as the properties read them
\* the sales made on a calendar day
SalesOfDay(date) ==
    {s \in Sales : s.SaleTimestamp.day = date[1] * 10000 + date[2] * 100 + date[3]}

RECURSIVE TotalOfSales(_)
TotalOfSales(sales) ==
    IF sales = {} THEN 0
    ELSE LET s == CHOOSE x \in sales : TRUE IN s.TotalAmount + TotalOfSales(sales \ {s})

LengthOfMonth(year, month) ==
    CASE month \in {1, 3, 5, 7, 8, 10, 12} -> 31
      [] month \in {4, 6, 9, 11} -> 30
      [] OTHER -> IF year % 4 = 0 /\ (year % 100 # 0 \/ year % 400 = 0) THEN 29 ELSE 28

\* the calendar days a report covers, in order
DaysOfReport(r) ==
    IF r.action = "weekly_report"
    THEN [i \in 1..(ToOrdinal(r.range[2]) - ToOrdinal(r.range[1]) + 1) |->
             FromOrdinal(ToOrdinal(r.range[1]) + i - 1)]
    ELSE [i \in 1..LengthOfMonth(r.range[1], r.range[2]) |-> <<r.range[1], r.range[2], i>>]

\* the step in which a report request of client w is answered
ReportEnds(w) == Completes(w) /\ req'[w].action \in {"weekly_report", "monthly_report"}

\* C21: when the store answers, the weekly and the monthly chart hold one
\* value per calendar day of their range, in day order (7 for the week,
\* Monday to Sunday, the number of days of the month for a month): 0 for a
\* day with no sale, the sum of TotalAmount of the day's sales otherwise;
\* and the reported total is the sum of the series.
C21_DenseSeries ==
    [][\A w \in AdminWorkers :
         ReportEnds(w) /\ req'[w].conn = "ok" =>
            LET r == req'[w]
                days == DaysOfReport(r)
            IN  /\ r.action = "weekly_report" =>
                     /\ Len(days) = 7
                     /\ Weekday(r.range[1]) = 0
                     /\ \E i \in DOMAIN days : days[i] = now.date
                /\ Len(r.chart.data) = Len(days)
                /\ Len(r.chart.labels) = Len(days)
                /\ \A i \in DOMAIN days :
                     r.chart.data[i] = TotalOfSales(SalesOfDay(days[i]))
                /\ r.chart.total = Total(r.chart.data)]_vars

\* the week of 26 February 2024 with a sale on Thursday the 29th and one on
\* Sunday 3 March only: seven values, five of them 0, total their sum
C21_Witness ==
    /\ req["admin"].pc = "done"
    /\ req["admin"].action = "weekly_report"
    /\ req["admin"].conn = "ok"
    /\ req["admin"].chart.data = <<0, 0, 0, 120, 0, 0, 20000>>
    /\ req["admin"].chart.total = 20120

\* ---- overlapping requests, as the properties read them
\* the step in which a tab sends a request that is answered without the store
Posts(w) == req[w].pc = "idle" /\ req'[w].pc = "in_flight"

\* the step in which the response to a tab's request reaches the browser
Receives(w) == req[w].pc = "in_flight" /\ req'[w].pc = "done"

RECURSIVE QuantityIn(_)
QuantityIn(items) == IF items = <<>> THEN 0 ELSE items[1].quantity + QuantityIn(Tail(items))

\* the cart a session value holds
CartIn(sess) == IF sess.has_sale THEN sess.current_sale ELSE EmptySale

\* C22: no lock orders the POS requests of one session: the cart of a
\* response is made from the cart its request carried, whatever other
\* requests of the session were answered meanwhile, and a response that
\* arrives replaces the session's cart whole.  So two overlapping requests
\* can both be answered while the cart shows only one of them.
C22_LastResponseWins ==
    [][\A w \in BrowserTabs :
         /\ Receives(w) => session'[SessionOf(w)] = req[w].cookie
         /\ Posts(w) /\ session[SessionOf(w)].logged_in =>
              LET carried == CartIn(session[SessionOf(w)])
                  answer == CartIn(req'[w].cookie)
              IN  /\ req'[w].sent = session[SessionOf(w)]
                  /\ req'[w].action = "set_customer" =>
                       answer.items = carried.items /\ answer.customer_name = "Ana"
                  /\ req'[w].action = "add_item" =>
                       /\ QuantityIn(answer.items) = QuantityIn(carried.items) + 1
                       /\ answer.customer_name = carried.customer_name
                  /\ req'[w].action = "clear_sale" => answer = EmptySale]_vars

\* both tabs carried the Empty cart; tab1 added a Refill, tab2 set the
\* customer; both were answered, and the cart has the customer and no line
C22_Witness ==
    /\ req["tab1"].pc = "done"
    /\ req["tab1"].out = "added"
    /\ req["tab2"].pc = "done"
    /\ req["tab2"].out = "customer_set"
    /\ req["tab1"].sent = req["tab2"].sent
    /\ Len(CartIn(req["tab1"].cookie).items) = 1
    /\ CartIn(session["s1"]).customer_name = "Ana"
    /\ CartIn(session["s1"]).items = <<>>

\* C23: carts are per session: a step of a request of one session leaves
\* every other session's cart as it was; a session's cart changes only
\* when a response to a request of that session arrives, to the cart of
\* that response, which was made from the cart that request carried, the
\* session's own; this for cart actions, finalize, clear and logout alike.
C23_SessionsIsolated ==
    [][/\ \A w \in Tills :
            req'[w] # req[w] =>
               /\ \A s \in SessionIds \ {SessionOf(w)} : session'[s] = session[s]
               /\ req[w].pc = "idle" /\ req'[w].pc # "idle" =>
                    req'[w].sent = session[SessionOf(w)]
               /\ req'[w].pc = "in_flight" =>
                    CartIn(req'[w].cookie) \in {CartIn(req'[w].sent), EmptySale}
                    \/ (/\ Posts(w)
                        /\ CartIn(req'[w].cookie).items # CartIn(req'[w].sent).items
                           => CartIn(req'[w].cookie).customer_name
                              = CartIn(req'[w].sent).customer_name
                        /\ req'[w].action \in {"add_item", "decrease_qty", "set_customer"})
       /\ \A s \in SessionIds :
            session'[s] # session[s] =>
               \E w \in Tills : /\ SessionOf(w) = s
                                /\ Receives(w)
                                /\ session'[s] = req[w].cookie]_vars

\* the second browser has logged out while the first session's cart holds
\* a line of two Refills for customer Ana
C23_Witness ==
    /\ req["till2"].pc = "done"
    /\ req["till2"].action = "logout"
    /\ CartIn(req["till2"].sent).items # <<>>
    /\ ~session["s2"].logged_in
    /\ session["s1"].logged_in
    /\ CartIn(session["s1"]).customer_name = "Ana"
    /\ Len(CartIn(session["s1"]).items) = 1
    /\ CartIn(session["s1"]).items[1].quantity = 2

\* the finalize request of tab w, not yet answered to the browser, has
\* created a Sale row and persisted every line of the cart it carried
Persisted(w) ==
    /\ req[w].action = "finalize_sale"
    /\ req[w].pc \in {"update_total", "in_flight"}
    /\ req[w].sale_id > 0
    /\ SalesWithId(Sales, req[w].sale_id) # {}
    /\ Len(RowsOfSale(SaleItems, req[w].sale_id)) = Len(req[w].cs.items)

\* C30: of two finalize_sale requests in progress at the same time that
\* carried the same non-empty cart of the same session, at most one has
\* created a Sale row carrying the lines of that cart.
C30_CartPersistedOnce ==
    \A w1, w2 \in BrowserTabs :
        Persisted(w1) /\ Persisted(w2) /\ req[w1].sent = req[w2].sent =>
           req[w1].sale_id = req[w2].sale_id

\* ---- connections, as the properties read them
\* the connections a call has opened and not closed
Held(r) == r.opened - r.closed

\* C24: when add_sale_item_db, the total update of POS finalize or the
\* total update of POST /api/sales has returned (success, constraint
\* violation, store error or no connection) it holds no open connection;
\* it never holds more than one, and none before or after the call.
C24_ConnectionsReleased ==
    \A w \in Workers :
        /\ Held(req[w]) \in {0, 1}
        /\ req[w].pc \in {"idle", "done"} => Held(req[w]) = 0
        /\ req[w].pc = "done" /\ req[w].action \in {"add_sale_item_db", "pos_total_update",
                                                     "api_total_update"} =>
             req[w].opened = (IF req[w].conn = "ok" THEN 1 ELSE 0)

\* add_sale_item_db has returned after a constraint violation (no Sale
\* row 3): it had opened a connection and has closed it
C24_Witness ==
    /\ req["pos"].pc = "done"
    /\ req["pos"].action = "add_sale_item_db"
    /\ req["pos"].out = "constraint"
    /\ req["pos"].opened = 1
    /\ req["pos"].closed = 1

\* C25: on the product and customer pages (no sale is created there and
\* delete_sale is not called) every step leaves every Sale row and the
\* SaleItems of every Sale as they were.
C25_SalesNeverRewritten ==
    [][\A s \in Sales :
          /\ s \in Sales'
          /\ RowsOfSale(SaleItems', s.SaleID) = RowsOfSale(SaleItems, s.SaleID)]_vars

\* the carts in the system: of the sessions, and the copies requests work on
CartsInUse ==
    {session[s].current_sale : s \in {t \in SessionIds : session[t].has_sale}}
    \cup {req[w].cs : w \in Workers}

\* C26: every line of every cart has quantity >= 1, and every SaleItems
\* row has Quantity > 0; a decrease of a line of quantity 1 removes it.
C26_QuantitiesPositive ==
    /\ \A c \in CartsInUse : \A i \in DOMAIN c.items : c.items[i].quantity >= 1
    /\ \A i \in DOMAIN SaleItems : SaleItems[i].Quantity > 0
    /\ \A w \in PosWorkers :
          req[w].pc = "done" /\ req[w].out = "line_removed" =>
             ~\E i \in DOMAIN CurrentSale(session[SessionOf(w)]).items :
                  /\ CurrentSale(session[SessionOf(w)]).items[i].name = req[w].in.name
                  /\ CurrentSale(session[SessionOf(w)]).items[i].quantity < 1

\* a decrease has removed a line, and the store holds a SaleItems row
C26_Witness ==
    /\ req["pos"].pc = "done"
    /\ req["pos"].action = "decrease_qty"
    /\ req["pos"].out = "line_removed"
    /\ Len(SaleItems) >= 1

\* what C27 says of every cart line and of every SaleItems row, given how
\* a subtotal follows from a quantity and a unit price
SubtotalsDerived(subtotal(_, _)) ==
    /\ \A c \in CartsInUse : \A i \in DOMAIN c.items :
          c.items[i].subtotal = subtotal(c.items[i].quantity, c.items[i].price)
    /\ \A i \in DOMAIN SaleItems :
          SaleItems[i].Subtotal = subtotal(SaleItems[i].Quantity, SaleItems[i].PriceAtSale)

\* C27 as claimed: every cart line's subtotal equals its quantity x unit
\* price, and every SaleItems row has Subtotal = Quantity x PriceAtSale.
C27_SubtotalsExact == SubtotalsDerived(Product)

\* C27 as amended: every cart line's subtotal and every SaleItems row's
\* Subtotal equals quantity x unit price rounded to two decimals.
C27_SubtotalsDerived == SubtotalsDerived(RoundedProduct)

\* an increase has recomputed a line's subtotal while the store holds a
\* row whose Subtotal is rounded (1 x 0.125 -> 0.12)
C27_Witness ==
    /\ req["pos"].pc = "done"
    /\ req["pos"].action = "increase_qty"
    /\ req["pos"].out = "adjusted"
    /\ \E i \in DOMAIN SaleItems :
          SaleItems[i].Subtotal # SaleItems[i].Quantity * SaleItems[i].PriceAtSale

\* the step in which the POS finalize of client w has its Sale row created
FinalizeCreates(w) ==
    req[w].pc = "idle" /\ req'[w].pc = "add_items" /\ req'[w].action = "finalize_sale"

\* the step in which the POS finalize of client w, past create_sale, goes on
FinalizeWrites(w) ==
    req[w].pc \in {"add_items", "update_total"} /\ req[w].action = "finalize_sale"
       /\ req'[w] # req[w]

SaleIdsOf(sales) == {s.SaleID : s \in sales}

\* C28: a POS finalize that creates a Sale gives it an id no Sale and no
\* SaleItems row has and none had before, and adds one row to Sales; its
\* later steps append SaleItems only under that id and leave every other
\* Sale row and every other Sale's SaleItems as they were.
C28_FinalizeFreshSale ==
    [][\A w \in PosWorkers :
         /\ FinalizeCreates(w) =>
               /\ req'[w].sale_id \notin SaleIdsOf(Sales)
               /\ RowsOfSale(SaleItems, req'[w].sale_id) = <<>>
               /\ req'[w].sale_id >= nextSaleID
               /\ nextSaleID' > req'[w].sale_id
               /\ SaleIdsOf(Sales') = SaleIdsOf(Sales) \cup {req'[w].sale_id}
               /\ Sales \subseteq Sales'
               /\ SaleItems' = SaleItems
         /\ FinalizeWrites(w) =>
               /\ \A s \in Sales : s.SaleID # req[w].sale_id => s \in Sales'
               /\ SaleIdsOf(Sales') = SaleIdsOf(Sales)
               /\ \A id \in 1..MaxSales :
                     id # req[w].sale_id => RowsOfSale(SaleItems', id) = RowsOfSale(SaleItems, id)
               /\ Len(SaleItems') >= Len(SaleItems)]_vars

\* the cart kept after a partial failure was finalized again: Sale 1 keeps
\* the line that had succeeded, and Sale 2 holds that line a second time
C28_Witness ==
    /\ req["pos"].pc = "done"
    /\ req["pos"].out = "partial"
    /\ req["pos"].sale_id = 2
    /\ SaleIdsOf(Sales) = {1, 2}
    /\ Len(RowsOfSale(SaleItems, 1)) = 1
    /\ Len(RowsOfSale(SaleItems, 2)) = 1
    /\ RowsOfSale(SaleItems, 1)[1].ProductName = RowsOfSale(SaleItems, 2)[1].ProductName
    /\ Len(req["pos"].cs.items) = 2

\* no finalize and no POST /api/sales is between create_sale and its response
NoSaleRequestInProgress ==
    \A w \in Workers :
        req[w].pc \notin {"add_items", "update_total", "api_items", "api_total"}

\* C29: when no finalize and no API request is in progress, every Sale row
\* has at least one SaleItems row.
C29_NoSaleWithoutItems ==
    NoSaleRequestInProgress =>
       \A s \in Sales : RowsOfSale(SaleItems, s.SaleID) # <<>>
====
